---- MODULE Spec2Model ----
(***************************************************************************)
(* Verification model of the recommendation service:                       *)
(*   - the event tracker (event buffer, flush, immediate path,             *)
(*     batchTrackEvents)             src/src/config/index.js 304-423       *)
(*   - the event controller          src/src/utils/logger.js 136-289       *)
(*   - the paginated sync engine     src/unnamed/part_000 (users),         *)
(*     src/src/config/index.js 760-979 (elections),                        *)
(*     src/src/services/shaped/voteSync.js (votes)                         *)
(*   - the full-sync driver          src/src/controllers/syncController.js *)
(*   - the single-entity syncs and the row transforms of the three files   *)
(*     above                                                               *)
(*   - the "for you" read path and the other reads (similar, trending,     *)
(*     popular, lotterized, by category, audience) with their database     *)
(*     fallbacks                     src/unnamed/part_001,                 *)
(*     src/src/controllers/recommendationController.js                     *)
(*   - createTable and createEngine of the platform client                 *)
(*                                   src/unnamed/part_000 247-364          *)
(*   - the event labels              src/src/services/shaped/eventTypes.js *)
(*   - the scheduled incremental syncs and their since-cursors             *)
(*                                   src/src/jobs/scheduledSync.js         *)
(*   - the shutdown handler          src/src/app.js 91-106                 *)
(*                                                                         *)
(* The runtime is single-threaded and cooperative: a handler runs without  *)
(* interruption up to its next `await`.  Every action below is one such    *)
(* run-to-await step; an upload or a query that is awaited is "in flight"  *)
(* between the step that issues it and the step that resumes after it.     *)
(***************************************************************************)
EXTENDS Integers, Sequences, FiniteSets, TLC

(***************************************************************************)
(* Bounds of the model.                                                    *)
(***************************************************************************)
\* number of events the tracking entry points create in one behaviour
MaxEvents == 3
\* flush threshold of the buffer.  The source sets 100 (config/index.js:316);
\* the model scales it down so that the size trigger fires within MaxEvents.
\* Nothing in the code depends on the value other than the >= comparison.
BUFFER_FLUSH_SIZE == 2
\* longest input of batchTrackEvents
MaxBatchLen == 5
\* chunk size of batchTrackEvents.  The source sets 1000
\* (config/index.js:400); scaled down so that inputs span several chunks.
TrackBatchSize == 2
\* rows of the relational table a sync reads
MaxRows == 3
\* distinct timestamps of those rows (1..MaxTs), so that equal ones occur
MaxTs == 2
\* config.sync.batchSize: SYNC_BATCH_SIZE from the environment, default
\* 1000 (config/index.js:54); a small page size so that tables span pages.
SyncBatchSize == 2

(***************************************************************************)
(* Event kinds (eventTypes.js EVENT_TYPES), restricted to the two kinds    *)
(* the per-kind helpers send immediately and one deferred kind.            *)
(***************************************************************************)
EventTypes == {"vote_cast", "lottery_win", "view_election"}

NoEvent == [id |-> 0, event_type |-> "none", label |-> 0]

\* the value a step hands back to its caller when it hands nothing back
NoRet == [call |-> "none", success |-> FALSE, buffered |-> FALSE,
          event |-> NoEvent, path |-> "none", upload |-> "none",
          batch |-> <<>>, threw |-> FALSE]

VARIABLES
    eventBuffer,    \* let eventBuffer = []          (config/index.js:315)
    nextId,         \* number of createBaseEvent calls so far, plus one
    flights,        \* insertDataset calls of the tracker that are awaited
    uploaded,       \* events the external events table has accepted
    failedImmediate,\* events whose singleton upload was rejected
    ret             \* what the step just taken returned to its caller

trackerVars == <<eventBuffer, nextId, flights, uploaded, failedImmediate, ret>>

VARIABLES
    bPc,            \* batchTrackEvents: "idle", "uploading", "returned", "threw"
    bEvents,        \* transformedEvents
    bI,             \* the loop index i
    bTotalSent,     \* totalSent
    bChunks,        \* the batches insertDataset accepted from this call, in order
    bRet            \* what batchTrackEvents returned

batchVars == <<bPc, bEvents, bI, bTotalSent, bChunks, bRet>>

VARIABLES
    rows,           \* the relational table read by the sync: row id -> columns
    family,         \* which sync function is running
    since,          \* options.since (NoSince when null)
    statusFilter,   \* options.status given (elections only)
    sPc,            \* "idle", "fetching", "uploading", "returned", "threw"
    sOffset,        \* offset
    sTotalSynced,   \* totalSynced
    sPage,          \* the page fetched and being uploaded
    sFetches,       \* number of page queries issued
    sInserted,      \* the pages the external table accepted, in order
    sRet            \* what the sync function returned or that it threw

syncVars == <<rows, family, since, statusFilter, sPc, sOffset, sTotalSynced,
              sPage, sFetches, sInserted, sRet>>

VARIABLES
    dPc,            \* driver position: "idle", the family being awaited, "done", "aborted"
    dEntry,         \* "none", "runFullSync" or "syncAllVotesToShaped"
    dSyncVotes,     \* req.body.syncVotes of runFullSync (shouldSyncVotes)
    dIncludeParticipation, \* options.includeParticipation
    dResults,       \* results of runFullSync: users, elections, votes
    dDetails,       \* results of syncAllVotesToShaped, per sub-stream
    dAttempted,     \* the family sync functions called so far
    dRaised,        \* the family sync functions that threw
    dRet            \* what the driver answered

driverVars == <<dPc, dEntry, dSyncVotes, dIncludeParticipation, dResults,
                dDetails, dAttempted, dRaised, dRet>>

VARIABLES
    gPc,            \* single sync: "idle", "querying", "inserting", "returned", "threw"
    gKind,          \* "user" (syncSingleUser) or "election" (syncSingleElection)
    gId,            \* the id the caller passed
    gInserts,       \* the singleton batches handed to insertDataset, in order
    gRet            \* what the single sync returned, or where it threw

singleVars == <<gPc, gKind, gId, gInserts, gRet>>

VARIABLES
    xKind,          \* which transform is applied: "user", "election", ...
    xRow,           \* the source row (or payload) it is applied to
    xNow,           \* the clock readings of the applications so far
    xOut            \* the records the applications produced, in order

xformVars == <<xKind, xRow, xNow, xOut>>

VARIABLES
    fPc,            \* getElectionsForYou: "idle", the call awaited, "returned"
    fReqUserId,     \* the user id the caller supplied ("" when none)
    fAuthUserId,    \* req.user?.id of an HTTP request ("" when none)
    fUserId,        \* the userId argument of the service function
    fLimit,         \* options.limit
    fOffset,        \* options.offset
    fDbCount,       \* rows of the votes table that carry fUserId
    fVoteCount,     \* userVoteCount
    fCalls,         \* the calls to the platform and the database, in order
    fResponse,      \* the items the platform's last answer carried
    fNow,           \* `now` of the last run of filterActiveElections
    fRet            \* what getElectionsForYou returned

forYouVars == <<fPc, fReqUserId, fAuthUserId, fUserId, fLimit, fOffset,
                fDbCount, fVoteCount, fCalls, fResponse, fNow, fRet>>

VARIABLES
    rPc,            \* a list read: "idle", "external", "fallback", "returned"
    rOp,            \* "similar", "trending", "popular", "lotterized", ...
    rLimit,         \* options.limit
    rArg,           \* electionId, categoryId or minPrize (0 when none)
    rExcludeSelf,   \* options.excludeSelf of getSimilarElections
    rCalls,         \* the calls to the platform and the database, in order
    rResponse,      \* the items the platform's answer carried
    rNow,           \* the time at which the answer was processed
    rRet            \* what the read returned

readVars == <<rPc, rOp, rLimit, rArg, rExcludeSelf, rCalls, rResponse, rNow,
              rRet>>

VARIABLES
    cPc,            \* a create call: "idle", "posting", "returned", "threw"
    cOp,            \* "createTable" or "createEngine"
    cName,          \* params.name / engineConfig.name
    cStatus,        \* status of the platform's response (0: no response)
    cExisting,      \* the tables and engines the platform has created
    cRet            \* what the call returned, or what it threw

clientVars == <<cPc, cOp, cName, cStatus, cExisting, cRet>>

VARIABLES
    hCount,         \* requests the event controller has handled
    hReq,           \* the last of them: its route and body
    hResponse       \* what its handler answered before calling the service

httpVars == <<hCount, hReq, hResponse>>

VARIABLES
    jPc,            \* scheduled job: "idle", or the family whose run is awaited
    jClock,         \* the wall clock
    lastUserSync,   \* let lastUserSync = new Date()      (scheduledSync.js:12)
    lastElectionSync, \* let lastElectionSync = new Date() (scheduledSync.js:13)
    jSince,         \* the since value handed to the run under way
    jRuns,          \* the runs the cron has started
    jSinces,        \* the since values of the election runs that ended
    jFetched,       \* the row versions of the page being uploaded
    jUploaded       \* the row versions the platform accepted from the runs

jobVars == <<jPc, jClock, lastUserSync, lastElectionSync, jSince, jRuns,
             jSinces, jFetched, jUploaded>>

VARIABLES
    ePc,            \* the process: "running", "flushing", "closing", "exited"
    eFlight,        \* the upload the shutdown's forceFlush awaits
    eAtSignal       \* the events buffered or in a flush when the signal came

exitVars == <<ePc, eFlight, eAtSignal>>

\* the state of the scheduled job and of the shutdown
lastVars == <<jobVars, exitVars>>

\* the state of the parts modelled after the for-you read
moreVars == <<readVars, clientVars, httpVars, lastVars>>

\* the state of the parts of the service modelled further down
laterVars == <<driverVars, singleVars, xformVars, forYouVars, moreVars>>

(***************************************************************************)
(* Helpers on sequences.                                                   *)
(***************************************************************************)
Elems(s) == {s[i] : i \in 1..Len(s)}

(***************************************************************************)
(* EVENT_LABELS and getEventLabel (eventTypes.js).  Labels are kept in     *)
(* tenths: 1.0 is 10, 0.8 is 8, -0.3 is -3.                                *)
(***************************************************************************)
EVENT_LABELS ==
    [vote_cast |-> 10, lottery_win |-> 10, election_shared |-> 9,
     election_saved |-> 8, election_created |-> 8, verification_done |-> 7,
     view_results |-> 5, video_watched |-> 5, comment_added |-> 6,
     view_election |-> 3, election_skipped |-> -3, election_hidden |-> -7,
     election_reported |-> -10, feed_impression |-> 0, search_click |-> 1]

\* EVENT_LABELS is an object literal, so EVENT_LABELS[key] also finds what
\* the object inherits from Object.prototype: for these keys (three of
\* them stand for all) the lookup yields a function or an object
ObjectPrototypeKeys == {"constructor", "toString", "__proto__"}

Number(n) == [type |-> "number", v |-> n]

\* EVENT_LABELS[eventType] ?? 0.0, as a value of the language
EventLabelValue(eventType) ==
    IF eventType \in DOMAIN EVENT_LABELS THEN Number(EVENT_LABELS[eventType])
    ELSE IF eventType \in ObjectPrototypeKeys
         THEN [type |-> IF eventType = "__proto__" THEN "object" ELSE "function"]
         ELSE Number(0)             \* undefined ?? 0.0

\* the number getEventLabel returns for a kind that names no inherited
\* property
getEventLabel(eventType) == EventLabelValue(eventType).v

\* value > 0 and value < 0: a function or an object converts to NaN, and
\* every comparison with NaN is false
GreaterThan0(value) == value.type = "number" /\ value.v > 0

LessThan0(value) == value.type = "number" /\ value.v < 0

isPositiveEvent(eventType) == GreaterThan0(EventLabelValue(eventType))

isNegativeEvent(eventType) == LessThan0(EventLabelValue(eventType))

(***************************************************************************)
(* createBaseEvent: a fresh event_id (uuid), the caller's event type and   *)
(* the label of that type.                                                 *)
(***************************************************************************)
createBaseEvent(eventType) ==
    [id |-> nextId, event_type |-> eventType, label |-> getEventLabel(eventType)]

(***************************************************************************)
(* flushEventBuffer, line 329: the catch block puts the snapshot back in   *)
(* front of whatever the buffer holds by then.                             *)
(***************************************************************************)
RequeueDropsNewer(eventsToSend, buffer) == eventsToSend

RequeueLosesBatch(eventsToSend, buffer) == buffer

Requeue(eventsToSend, buffer) == eventsToSend \o buffer

(***************************************************************************)
(* trackEvent, line 364: the size trigger.                                 *)
(***************************************************************************)
SizeTriggeredStrict(len) == len > BUFFER_FLUSH_SIZE

SizeTriggered(len) == len >= BUFFER_FLUSH_SIZE

(***************************************************************************)
(* trackEvent, lines 357-358: the catch block of the immediate path.       *)
(***************************************************************************)
ImmediateCatchDrops(buffer, event) == buffer

ImmediateCatch(buffer, event) == Append(buffer, event)

(***************************************************************************)
(* flushEventBuffer, lines 328-331: an upload error is caught, never       *)
(* re-thrown; TRUE would mean the error leaves flushEventBuffer.           *)
(***************************************************************************)
FlushRethrowsAlways == TRUE

FlushRethrows == FALSE

(***************************************************************************)
(* trackEvent up to its first await (or its return when nothing is         *)
(* awaited).  immediate: upload [event]; else push, and when the size      *)
(* trigger holds call flushEventBuffer, which snapshots and clears the     *)
(* buffer in the same synchronous run and then awaits the upload.          *)
(***************************************************************************)
trackEventCall(eventType, immediate) ==
    /\ nextId <= MaxEvents
    /\ nextId' = nextId + 1
    /\ UNCHANGED <<uploaded, failedImmediate, batchVars, syncVars>>
    /\ LET event == createBaseEvent(eventType)
           pushed == Append(eventBuffer, event)
       IN  IF immediate
           THEN /\ flights' = flights \cup
                       {[op |-> "immediate", batch |-> <<event>>,
                         event |-> event]}
                /\ ret' = NoRet
                /\ UNCHANGED eventBuffer
           ELSE IF SizeTriggered(Len(pushed))
                THEN /\ flights' = flights \cup
                            {[op |-> "flush", batch |-> pushed,
                              event |-> event]}
                     /\ eventBuffer' = <<>>
                     /\ ret' = NoRet
                ELSE /\ eventBuffer' = pushed
                     /\ ret' = [call |-> "track", success |-> TRUE,
                                buffered |-> TRUE, event |-> event,
                                path |-> "deferred", upload |-> "none",
                                batch |-> <<>>, threw |-> FALSE]
                     /\ UNCHANGED flights

\* trackEvent called from within the service or by another module
trackEvent(eventType, immediate) ==
    trackEventCall(eventType, immediate) /\ UNCHANGED laterVars

(***************************************************************************)
(* Tracking entry points.                                                  *)
(***************************************************************************)
\* trackVoteCast: immediate: true
trackVoteCast == trackEvent("vote_cast", TRUE)

\* trackLotteryWin: immediate: true
trackLotteryWin == trackEvent("lottery_win", TRUE)

\* trackElectionView: no immediate flag, so immediate = false
trackElectionView == trackEvent("view_election", FALSE)

\* event controller trackEvent (POST /events/track): any valid event type,
\* forwarded as {userId, electionId, eventType, metadata}: no immediate flag
controllerTrackEvent ==
    \E eventType \in EventTypes : trackEvent(eventType, FALSE)

(***************************************************************************)
(* flushEventBuffer started by the interval timer (line 334) or by         *)
(* forceFlush (line 415): no-op on an empty buffer, else snapshot, clear   *)
(* and await the upload.  Neither caller does anything with the outcome,   *)
(* so the flight carries no event of a waiting trackEvent.                 *)
(***************************************************************************)
flushEventBufferCall ==
    /\ ret' = NoRet
    /\ UNCHANGED <<nextId, uploaded, failedImmediate, batchVars, syncVars>>
    /\ IF Len(eventBuffer) = 0
       THEN UNCHANGED <<eventBuffer, flights>>
       ELSE /\ flights' = flights \cup
                   {[op |-> "flush", batch |-> eventBuffer,
                     event |-> NoEvent]}
            /\ eventBuffer' = <<>>

flushEventBuffer == flushEventBufferCall /\ UNCHANGED laterVars

\* setInterval(flushEventBuffer, BUFFER_FLUSH_INTERVAL_MS)
TimerFlush == flushEventBuffer

\* forceFlush: await flushEventBuffer()
forceFlush == flushEventBuffer

(***************************************************************************)
(* The awaited upload of a flush resolves.  When the flush was called by   *)
(* trackEvent (size trigger), trackEvent resumes in the same run of the    *)
(* microtask queue and returns its result.                                 *)
(***************************************************************************)
TrackResult(f, outcome) ==
    IF f.event # NoEvent
    THEN [call |-> "track", success |-> TRUE, buffered |-> TRUE,
          event |-> f.event, path |-> "deferred", upload |-> outcome,
          batch |-> f.batch,
          threw |-> (outcome = "failed" /\ FlushRethrows)]
    ELSE NoRet

FlushUploadSucceeds ==
    \E f \in flights :
        /\ f.op = "flush"
        /\ flights' = flights \ {f}
        /\ uploaded' = uploaded \cup Elems(f.batch)
        /\ ret' = TrackResult(f, "ok")
        /\ UNCHANGED <<eventBuffer, nextId, failedImmediate, batchVars, syncVars, laterVars>>

FlushUploadFails ==
    \E f \in flights :
        /\ f.op = "flush"
        /\ flights' = flights \ {f}
        /\ eventBuffer' = Requeue(f.batch, eventBuffer)
        /\ ret' = TrackResult(f, "failed")
        /\ UNCHANGED <<nextId, uploaded, failedImmediate, batchVars, syncVars, laterVars>>

(***************************************************************************)
(* The awaited singleton upload of the immediate path resolves             *)
(* (trackEvent lines 352-359).                                             *)
(***************************************************************************)
ImmediateUploadSucceeds ==
    \E f \in flights :
        /\ f.op = "immediate"
        /\ flights' = flights \ {f}
        /\ uploaded' = uploaded \cup {f.event}
        /\ ret' = [call |-> "track", success |-> TRUE, buffered |-> FALSE,
                   event |-> f.event, path |-> "immediate", upload |-> "ok",
                   batch |-> f.batch, threw |-> FALSE]
        /\ UNCHANGED <<eventBuffer, nextId, failedImmediate, batchVars, syncVars, laterVars>>

ImmediateUploadFails ==
    \E f \in flights :
        /\ f.op = "immediate"
        /\ flights' = flights \ {f}
        /\ eventBuffer' = ImmediateCatch(eventBuffer, f.event)
        /\ failedImmediate' = failedImmediate \cup {f.event}
        /\ ret' = [call |-> "track", success |-> FALSE, buffered |-> TRUE,
                   event |-> f.event, path |-> "immediate",
                   upload |-> "failed", batch |-> f.batch, threw |-> FALSE]
        /\ UNCHANGED <<nextId, uploaded, batchVars, syncVars, laterVars>>

\* getBufferSize
getBufferSize == Len(eventBuffer)

TrackerInit ==
    /\ eventBuffer = <<>>
    /\ nextId = 1
    /\ flights = {}
    /\ uploaded = {}
    /\ failedImmediate = {}
    /\ ret = NoRet

(***************************************************************************)
(* batchTrackEvents (config/index.js 398-411).                             *)
(***************************************************************************)
NoBatchRet == [call |-> "none", success |-> FALSE, totalSent |-> 0,
               threw |-> FALSE]

Min(a, b) == IF a < b THEN a ELSE b

\* Array.prototype.slice(i, j) on a sequence, i and j counted from 0
slice(s, i, j) == SubSeq(s, i + 1, Min(j, Len(s)))

\* the event specs a caller may pass
BatchInputs == UNION {[1..n -> EventTypes] : n \in 0..MaxBatchLen}

\* events.map(event => createBaseEvent(event)): one fresh event per input
transformedEvents(events) ==
    [k \in 1..Len(events) |->
        [id |-> k, event_type |-> events[k], label |-> getEventLabel(events[k])]]

\* the await of insertDataset sits in no try block: a rejected upload
\* leaves the loop and the function
BatchSkipsFailedChunk == FALSE

BatchFailureStops == TRUE

\* what the loop does after the chunk at bI has been dealt with
BatchAdvance(sent) ==
    /\ bI' = bI + TrackBatchSize
    /\ bTotalSent' = bTotalSent + sent
    /\ IF bI + TrackBatchSize < Len(bEvents)
       THEN /\ bPc' = "uploading"
            /\ bRet' = NoBatchRet
       ELSE /\ bPc' = "returned"
            /\ bRet' = [call |-> "batchTrackEvents", success |-> TRUE,
                        totalSent |-> bTotalSent + sent, threw |-> FALSE]

batchTrackEventsCall(events) ==
    /\ bPc = "idle"
    /\ bEvents' = transformedEvents(events)
    /\ bI' = 0
    /\ bTotalSent' = 0
    /\ bChunks' = <<>>
    /\ IF 0 < Len(events)
       THEN /\ bPc' = "uploading"
            /\ bRet' = NoBatchRet
       ELSE /\ bPc' = "returned"
            /\ bRet' = [call |-> "batchTrackEvents", success |-> TRUE,
                        totalSent |-> 0, threw |-> FALSE]
    /\ UNCHANGED <<trackerVars, syncVars>>

batchTrackEvents ==
    \E events \in BatchInputs :
        batchTrackEventsCall(events) /\ UNCHANGED laterVars

BatchChunkSucceeds ==
    /\ bPc = "uploading"
    /\ LET batch == slice(bEvents, bI, bI + TrackBatchSize)
       IN  /\ bChunks' = Append(bChunks, batch)
           /\ BatchAdvance(Len(batch))
    /\ UNCHANGED <<bEvents, trackerVars, syncVars, laterVars>>

BatchChunkFails ==
    /\ bPc = "uploading"
    /\ IF BatchFailureStops
       THEN /\ bPc' = "threw"
            /\ bRet' = [call |-> "batchTrackEvents", success |-> FALSE,
                        totalSent |-> 0, threw |-> TRUE]
            /\ UNCHANGED <<bI, bTotalSent>>
       ELSE BatchAdvance(0)
    /\ UNCHANGED <<bEvents, bChunks, trackerVars, syncVars, laterVars>>

BatchInit ==
    /\ bPc = "idle"
    /\ bEvents = <<>>
    /\ bI = 0
    /\ bTotalSent = 0
    /\ bChunks = <<>>
    /\ bRet = NoBatchRet

(***************************************************************************)
(* The paginated sync engine.                                              *)
(*                                                                         *)
(* A row is [ts, ok]: ts is the column the family's since filter reads     *)
(* (elections updated_at, votes created_at, anonymous votes and            *)
(* participation voted_at, users user_registered) and ok is the family's   *)
(* other WHERE predicate (votes status = 'valid', participation            *)
(* has_voted = true, elections status = the requested status).  The row id *)
(* is the primary key.                                                     *)
(***************************************************************************)
NoSince == 0

RowIds == DOMAIN rows

NoSyncRet == [call |-> "none", success |-> FALSE, totalSynced |-> 0,
              threw |-> FALSE]

\* the sequences that list every element of S once
Perms(S) ==
    {s \in [1..Cardinality(S) -> S] :
        \A i, j \in 1..Cardinality(S) : i # j => s[i] # s[j]}

\* ORDER BY <primary key>: the one listing of S by ascending id
OrderById(S) ==
    {s \in Perms(S) : \A i, j \in 1..Len(s) : i < j => s[i] < s[j]}

\* ORDER BY <timestamp> ASC: every listing of S with ascending ts; the
\* query names no second sort key, so rows with equal ts come in any order
\* and the order may differ from one query to the next
OrderByTs(S) ==
    {s \in Perms(S) : \A i, j \in 1..Len(s) : i < j => rows[s[i]].ts <= rows[s[j]].ts}

\* LIMIT limit OFFSET offset applied to one listing
LimitOffset(listing, limit, offset) == slice(listing, offset, offset + limit)

\* if (since) query += ' AND <ts> >= $n'
SinceClause(r, s) == (s # NoSince) => (rows[r].ts >= s)

\* the rows each family's query selects (its WHERE clause)
\* users: no WHERE clause, and fetchUsersFromDB takes no since parameter
UsersWhere == RowIds

\* elections: AND e.status = $n when filters.status, AND e.updated_at >= $n
\* when filters.since
ElectionsWhere(fStatus, fSince) ==
    {r \in RowIds : (fStatus => rows[r].ok) /\ SinceClause(r, fSince)}

\* regular votes: WHERE v.status = 'valid' [AND v.created_at >= since]
RegularVotesWhere(s) == {r \in RowIds : rows[r].ok /\ SinceClause(r, s)}

\* anonymous votes: WHERE 1=1 [AND av.voted_at >= since]
AnonymousVotesWhere(s) == {r \in RowIds : SinceClause(r, s)}

\* participation: WHERE vp.has_voted = true [AND vp.voted_at >= since]
ParticipationWhere(s) == {r \in RowIds : rows[r].ok /\ SinceClause(r, s)}

\* fetchUsersFromDB(limit, offset): ORDER BY u.user_id
fetchUsersFromDB(limit, offset) ==
    {LimitOffset(l, limit, offset) : l \in OrderById(UsersWhere)}

\* fetchElectionsFromDB(limit, offset, filters): ORDER BY e.id
fetchElectionsFromDB(limit, offset, fStatus, fSince) ==
    {LimitOffset(l, limit, offset) :
        l \in OrderById(ElectionsWhere(fStatus, fSince))}

\* fetchRegularVotes(limit, offset, since): ORDER BY v.created_at ASC
fetchRegularVotes(limit, offset, s) ==
    {LimitOffset(l, limit, offset) : l \in OrderByTs(RegularVotesWhere(s))}

\* fetchAnonymousVotes(limit, offset, since): ORDER BY av.voted_at ASC
fetchAnonymousVotes(limit, offset, s) ==
    {LimitOffset(l, limit, offset) : l \in OrderByTs(AnonymousVotesWhere(s))}

\* fetchVoterParticipation(limit, offset, since): ORDER BY vp.voted_at ASC
fetchVoterParticipation(limit, offset, s) ==
    {LimitOffset(l, limit, offset) : l \in OrderByTs(ParticipationWhere(s))}

\* the page query the running sync function issues
FetchPage ==
    CASE family = "users" -> fetchUsersFromDB(SyncBatchSize, sOffset)
      [] family = "elections" ->
            fetchElectionsFromDB(SyncBatchSize, sOffset, statusFilter, since)
      [] family = "regular_votes" ->
            fetchRegularVotes(SyncBatchSize, sOffset, since)
      [] family = "anonymous_votes" ->
            fetchAnonymousVotes(SyncBatchSize, sOffset, since)
      [] family = "participation" ->
            fetchVoterParticipation(SyncBatchSize, sOffset, since)

\* the catch block of every sync function: log, then throw error
SyncSwallowsError == FALSE

SyncRethrows == TRUE

SyncSuccess ==
    [call |-> family, success |-> TRUE, totalSynced |-> sTotalSynced,
     threw |-> FALSE]

\* what the caller gets when a query or an upload of the loop rejects
SyncFailure ==
    IF SyncRethrows
    THEN [call |-> family, success |-> FALSE, totalSynced |-> 0,
          threw |-> TRUE]
    ELSE SyncSuccess

\* a sync function is called: locals initialised, first page query issued
BeginSync(f, s, st) ==
    /\ family' = f
    /\ since' = s
    /\ statusFilter' = st
    /\ sPc' = "fetching"
    /\ sOffset' = 0
    /\ sTotalSynced' = 0
    /\ sPage' = <<>>
    /\ sFetches' = 1
    /\ sInserted' = <<>>
    /\ sRet' = NoSyncRet
    /\ UNCHANGED <<rows, trackerVars, batchVars>>

StartSync(f, s, st) ==
    /\ sPc = "idle"
    /\ BeginSync(f, s, st)
    /\ UNCHANGED laterVars

syncUsersToShaped == \E s \in 0..MaxTs : StartSync("users", s, FALSE)

syncElectionsToShaped ==
    \E s \in 0..MaxTs, st \in BOOLEAN : StartSync("elections", s, st)

syncRegularVotesToShaped ==
    \E s \in 0..MaxTs : StartSync("regular_votes", s, FALSE)

syncAnonymousVotesToShaped ==
    \E s \in 0..MaxTs : StartSync("anonymous_votes", s, FALSE)

syncParticipationToShaped ==
    \E s \in 0..MaxTs : StartSync("participation", s, FALSE)

\* `await shapedClient.insertDataset(...)` inside the loop: the loop does
\* not go on to the next page query until the upload has resolved; FALSE
\* would mean the upload is started and the loop goes on at once
UploadNotAwaited == FALSE

UploadAwaited == TRUE

\* the page query resolves: an empty page ends the loop, any other page is
\* transformed and its upload awaited
FetchReturnsStep ==
    /\ sPc = "fetching"
    /\ \E page \in FetchPage :
          IF Len(page) = 0
          THEN /\ sPc' = "returned"
               /\ sRet' = SyncSuccess
               /\ UNCHANGED <<sPage, sFetches>>
          ELSE /\ sPc' = "uploading"
               /\ sPage' = page
               /\ sFetches' = IF UploadAwaited THEN sFetches ELSE sFetches + 1
               /\ UNCHANGED sRet
    /\ UNCHANGED <<rows, family, since, statusFilter, sOffset, sTotalSynced,
                   sInserted, trackerVars, batchVars>>

FetchReturns == FetchReturnsStep /\ UNCHANGED laterVars

FetchFailsStep ==
    /\ sPc = "fetching"
    /\ sPc' = "threw"
    /\ sRet' = SyncFailure
    /\ UNCHANGED <<rows, family, since, statusFilter, sOffset, sTotalSynced,
                   sPage, sFetches, sInserted, trackerVars, batchVars>>

FetchFails == FetchFailsStep /\ UNCHANGED laterVars

\* the upload resolves: count the page, advance the offset, and either
\* issue the next page query or (short page) return
UploadSucceedsStep ==
    /\ sPc = "uploading"
    /\ sInserted' = Append(sInserted, sPage)
    /\ sTotalSynced' = sTotalSynced + Len(sPage)
    /\ sOffset' = sOffset + SyncBatchSize
    /\ IF Len(sPage) < SyncBatchSize
       THEN /\ sPc' = "returned"
            /\ sRet' = [call |-> family, success |-> TRUE,
                        totalSynced |-> sTotalSynced + Len(sPage),
                        threw |-> FALSE]
            /\ UNCHANGED sFetches
       ELSE /\ sPc' = "fetching"
            /\ sFetches' = sFetches + 1
            /\ UNCHANGED sRet
    /\ UNCHANGED <<rows, family, since, statusFilter, sPage, trackerVars,
                   batchVars>>

UploadSucceeds == UploadSucceedsStep /\ UNCHANGED laterVars

UploadFailsStep ==
    /\ sPc = "uploading"
    /\ sPc' = "threw"
    /\ sRet' = SyncFailure
    /\ UNCHANGED <<rows, family, since, statusFilter, sOffset, sTotalSynced,
                   sPage, sFetches, sInserted, trackerVars, batchVars>>

UploadFails == UploadFailsStep /\ UNCHANGED laterVars

RowValues == [ts : 1..MaxTs, ok : BOOLEAN]

SyncInit ==
    /\ rows \in UNION {[1..n -> RowValues] : n \in 0..MaxRows}
    /\ family = "users"
    /\ since = NoSince
    /\ statusFilter = FALSE
    /\ sPc = "idle"
    /\ sOffset = 0
    /\ sTotalSynced = 0
    /\ sPage = <<>>
    /\ sFetches = 0
    /\ sInserted = <<>>
    /\ sRet = NoSyncRet

(***************************************************************************)
(* The sync drivers: runFullSync (syncController.js 100-209) and           *)
(* syncAllVotesToShaped (voteSync.js 315-361).  A driver awaits one family *)
(* sync after the other; a family sync either returns                      *)
(* {success: true, totalSynced} or throws (see SyncSuccess, SyncFailure).  *)
(***************************************************************************)
\* a results slot that has not been written (users: null, ...)
NullResult == [null |-> TRUE]

\* what a family sync returns when it does not throw
FamilySucceeded(n) == [success |-> TRUE, totalSynced |-> n]

\* the catch blocks: { success: false, error: error.message }; the message
\* of the error a family throws is modelled by the family's name
FamilyFailed(f) == [success |-> FALSE, error |-> f]

\* results.votes when req.body.syncVotes is false
VotesSkipped == [skipped |-> TRUE]

\* the initial results of syncAllVotesToShaped
InitialDetails(includeParticipation) ==
    [regularVotes   |-> [success |-> FALSE, totalSynced |-> 0],
     anonymousVotes |-> [success |-> FALSE, totalSynced |-> 0],
     participation  |-> [success |-> FALSE, totalSynced |-> 0,
                         skipped |-> ~includeParticipation]]

\* x.totalSynced || 0
TotalSyncedOr0(r) == IF "totalSynced" \in DOMAIN r THEN r.totalSynced ELSE 0

\* the value syncAllVotesToShaped returns
AllVotesResult(details) ==
    [success |-> TRUE,
     totalSynced |-> TotalSyncedOr0(details.regularVotes)
                     + TotalSyncedOr0(details.anonymousVotes)
                     + TotalSyncedOr0(details.participation),
     details |-> details]

\* whether each family runs in a try/catch of its own
DriverAbortsOnFailure == FALSE

DriverIsolates == TRUE

NoDriverRet == [status |-> 0]

DriverInit ==
    /\ dPc = "idle"
    /\ dEntry = "none"
    /\ dSyncVotes = TRUE
    /\ dIncludeParticipation = FALSE
    /\ dResults = [users |-> NullResult, elections |-> NullResult,
                   votes |-> NullResult]
    /\ dDetails = InitialDetails(FALSE)
    /\ dAttempted = {}
    /\ dRaised = {}
    /\ dRet = NoDriverRet

\* POST /sync/full up to `await shaped.syncUsersToShaped(...)`
runFullSync ==
    \E sv \in BOOLEAN :
        /\ dPc = "idle"
        /\ dEntry' = "runFullSync"
        /\ dSyncVotes' = sv
        /\ dIncludeParticipation' = FALSE
        /\ dPc' = "users"
        /\ dAttempted' = {"users"}
        /\ UNCHANGED <<dResults, dDetails, dRaised, dRet>>
        /\ UNCHANGED <<moreVars, trackerVars, batchVars, syncVars, singleVars, xformVars,
                     forYouVars>>

\* POST /sync/votes: syncAllVotesToShaped up to
\* `await syncRegularVotesToShaped(...)`
syncAllVotesToShaped ==
    \E inc \in BOOLEAN :
        /\ dPc = "idle"
        /\ dEntry' = "syncAllVotesToShaped"
        /\ dIncludeParticipation' = inc
        /\ dDetails' = InitialDetails(inc)
        /\ dPc' = "regularVotes"
        /\ dAttempted' = {"regularVotes"}
        /\ UNCHANGED <<dSyncVotes, dResults, dRaised, dRet>>
        /\ UNCHANGED <<moreVars, trackerVars, batchVars, syncVars, singleVars, xformVars,
                     forYouVars>>

VoteStreams == {"regularVotes", "anonymousVotes", "participation"}

\* the end of syncAllVotesToShaped with `details`, back in its caller:
\* the votes endpoint answers with it, runFullSync stores it in
\* results.votes and answers { success: true, results } (the creation of
\* datasets and models around the family syncs writes results.datasets and
\* results.models only)
FinishVotes(details) ==
    /\ dDetails' = details
    /\ dPc' = "done"
    /\ UNCHANGED dAttempted
    /\ IF dEntry = "runFullSync"
       THEN /\ dResults' = [dResults EXCEPT !.votes = AllVotesResult(details)]
            /\ dRet' = [status |-> 200, success |-> TRUE, results |-> dResults']
       ELSE /\ UNCHANGED dResults
            /\ dRet' = [status |-> 200, body |-> AllVotesResult(details)]

\* the awaited family sync settles: it returns n synced rows or it throws
SettleFamily(raises, n) ==
    LET f   == dPc
        res == IF raises THEN FamilyFailed(f) ELSE FamilySucceeded(n)
    IN  /\ dPc \in {"users", "elections"} \cup VoteStreams
        /\ dRaised' = IF raises THEN dRaised \cup {f} ELSE dRaised
        /\ UNCHANGED <<dEntry, dSyncVotes, dIncludeParticipation>>
        /\ UNCHANGED <<moreVars, trackerVars, batchVars, syncVars, singleVars, xformVars,
                     forYouVars>>
        /\ IF raises /\ ~DriverIsolates
           THEN \* the error leaves the driver: the controller's outer catch
                /\ dPc' = "aborted"
                /\ dRet' = [status |-> 500, success |-> FALSE]
                /\ UNCHANGED <<dResults, dDetails, dAttempted>>
           ELSE CASE f = "users" ->
                     /\ dResults' = [dResults EXCEPT !.users = res]
                     /\ dPc' = "elections"
                     /\ dAttempted' = dAttempted \cup {"elections"}
                     /\ UNCHANGED <<dDetails, dRet>>
                  [] f = "elections" /\ dSyncVotes ->
                     /\ dResults' = [dResults EXCEPT !.elections = res]
                     /\ dDetails' = InitialDetails(FALSE)
                     /\ dPc' = "regularVotes"
                     /\ dAttempted' = dAttempted \cup {"regularVotes"}
                     /\ UNCHANGED dRet
                  [] f = "elections" /\ ~dSyncVotes ->
                     /\ dResults' = [dResults EXCEPT !.elections = res,
                                                     !.votes = VotesSkipped]
                     /\ dPc' = "done"
                     /\ dRet' = [status |-> 200, success |-> TRUE,
                                 results |-> dResults']
                     /\ UNCHANGED <<dDetails, dAttempted>>
                  [] f = "regularVotes" ->
                     /\ dDetails' = [dDetails EXCEPT !.regularVotes = res]
                     /\ dPc' = "anonymousVotes"
                     /\ dAttempted' = dAttempted \cup {"anonymousVotes"}
                     /\ UNCHANGED <<dResults, dRet>>
                  [] f = "anonymousVotes" /\ dIncludeParticipation ->
                     /\ dDetails' = [dDetails EXCEPT !.anonymousVotes = res]
                     /\ dPc' = "participation"
                     /\ dAttempted' = dAttempted \cup {"participation"}
                     /\ UNCHANGED <<dResults, dRet>>
                  [] f = "anonymousVotes" /\ ~dIncludeParticipation ->
                     FinishVotes([dDetails EXCEPT !.anonymousVotes = res])
                  [] f = "participation" ->
                     FinishVotes([dDetails EXCEPT !.participation = res])

FamilyReturns == \E n \in 0..MaxRows : SettleFamily(FALSE, n)

FamilyRaises == SettleFamily(TRUE, 0)

(***************************************************************************)
(* The single-entity syncs: syncSingleUser (part_000 128-161) and          *)
(* syncSingleElection (config/index.js 944-969).  `rows` is the table the  *)
(* SELECT reads; the id is looked up by primary key.                       *)
(***************************************************************************)
\* ids a caller passes: those of the table's rows and one that no table has
SingleIds == 1..(MaxRows + 1)

\* return { success: false, reason: 'User not found' }
UserNotFoundAsElection == [success |-> FALSE, reason |-> "Election not found"]

UserNotFound == [success |-> FALSE, reason |-> "User not found"]

\* return { success: false, reason: 'Election not found' }
ElectionNotFound == [success |-> FALSE, reason |-> "Election not found"]

\* if (result.rows.length === 0) return ...: whether the early return is taken
SingleSkipsRowCheck(found) == FALSE

RowsEmpty(found) == ~found

\* return { success: true, user: transformedUser } / { ..., election: ... };
\* the transformed row is represented by the row's id
SingleSynced(kind, id) ==
    IF kind = "user" THEN [success |-> TRUE, user |-> id]
                     ELSE [success |-> TRUE, election |-> id]

NoSingleRet == [pending |-> TRUE]

SingleInit ==
    /\ gPc = "idle"
    /\ gKind = "user"
    /\ gId = 1
    /\ gInserts = <<>>
    /\ gRet = NoSingleRet

StartSingle(kind, id) ==
    /\ gPc = "idle"
    /\ gKind' = kind
    /\ gId' = id
    /\ gPc' = "querying"
    /\ UNCHANGED <<gInserts, gRet>>
    /\ UNCHANGED <<moreVars, trackerVars, batchVars, syncVars, driverVars, xformVars,
                   forYouVars>>

syncSingleUser == \E id \in SingleIds : StartSingle("user", id)

syncSingleElection == \E id \in SingleIds : StartSingle("election", id)

\* db.query resolves: no row -> the not-found result; one row -> transform
\* it and hand the singleton batch to insertDataset
SingleQueryReturns ==
    /\ gPc = "querying"
    /\ IF RowsEmpty(gId \in RowIds)
       THEN /\ gRet' = IF gKind = "user" THEN UserNotFound ELSE ElectionNotFound
            /\ gPc' = "returned"
            /\ UNCHANGED gInserts
       ELSE /\ gInserts' = Append(gInserts, <<gId>>)
            /\ gPc' = "inserting"
            /\ UNCHANGED gRet
    /\ UNCHANGED <<gKind, gId>>
    /\ UNCHANGED <<moreVars, trackerVars, batchVars, syncVars, driverVars, xformVars,
                   forYouVars>>

\* db.query rejects: nothing catches it
SingleQueryFails ==
    /\ gPc = "querying"
    /\ gPc' = "threw"
    /\ gRet' = [threw |-> "query"]
    /\ UNCHANGED <<gKind, gId, gInserts>>
    /\ UNCHANGED <<moreVars, trackerVars, batchVars, syncVars, driverVars, xformVars,
                   forYouVars>>

SingleInsertSucceeds ==
    /\ gPc = "inserting"
    /\ gPc' = "returned"
    /\ gRet' = SingleSynced(gKind, gId)
    /\ UNCHANGED <<gKind, gId, gInserts>>
    /\ UNCHANGED <<moreVars, trackerVars, batchVars, syncVars, driverVars, xformVars,
                   forYouVars>>

SingleInsertFails ==
    /\ gPc = "inserting"
    /\ gPc' = "threw"
    /\ gRet' = [threw |-> "insert"]
    /\ UNCHANGED <<gKind, gId, gInserts>>
    /\ UNCHANGED <<moreVars, trackerVars, batchVars, syncVars, driverVars, xformVars,
                   forYouVars>>

(***************************************************************************)
(* The row transforms: transformUserForShaped (part_000 64-89),            *)
(* calculateEngagementScore and transformElectionForShaped                 *)
(* (config/index.js 842-901), the three vote transforms (voteSync.js       *)
(* 121-190) and the event syncSingleVote builds (voteSync.js 366-392).     *)
(* A transform reads the row, the clock (new Date()) and, for a missing    *)
(* id, the uuid generator; both are parameters here.                       *)
(*                                                                         *)
(* Time is counted in ticks; DayLen ticks make a day and YearLen ticks a   *)
(* year.  A nullable column holds Null or Some(value).  Text that is       *)
(* cut or concatenated is a sequence of characters.                        *)
(***************************************************************************)
\* the clock readings 0..MaxNow
MaxNow == 4
\* ticks per day: the 1000 * 60 * 60 * 24 ms of days_remaining
DayLen == 2
\* ticks per calendar year (getFullYear)
YearLen == 4
\* a very large counter or prize pool
Huge == 50000
\* longest ballot token
MaxTokenLen == 17

Times == 0..MaxNow

Null == <<>>

Some(v) == <<v>>

\* the values uuidv4() can return
Uuids == {<<"u", "1">>, <<"u", "2">>}

Max(a, b) == IF a >= b THEN a ELSE b

\* Math.ceil(a / b) for b > 0
CeilDiv(a, b) == -((-a) \div b)

\* parseInt(x) || 0, parseFloat(x) || 0.0
ParseOr0(x) == IF x = Null THEN 0 ELSE x[1]

\* new Date(t).toISOString() for a column that is set, new Date() otherwise
DateAlwaysNow(t, now) == now

DateOrNow(t, now) == IF t = Null THEN now ELSE t[1]

\* getFullYear
FullYear(t) == t \div YearLen

(***************************************************************************)
(* transformUserForShaped                                                  *)
(***************************************************************************)
UserRows ==
    [user_id : {1}, age : {Null, Some(30)}, user_birthdate : {Null, Some(0)},
     user_registered : {Null, Some(1)}]

transformUserForShaped(user, now) ==
    LET age0 == ParseOr0(user.age)                    \* user.age || 0
        age  == IF age0 = 0 /\ user.user_birthdate # Null
                THEN FullYear(now) - FullYear(user.user_birthdate[1])
                ELSE age0
    IN  [user_id    |-> user.user_id,
         age        |-> age,
         created_at |-> DateOrNow(user.user_registered, now)]

(***************************************************************************)
(* calculateEngagementScore.  Scores are kept in units of 1/PrizeDivisor,  *)
(* so that 1.0 is ScoreOne and prize / 10000 is exact.                     *)
(***************************************************************************)
\* the divisor of the prize pool
PrizeDivisor == 10000

ScoreOne == PrizeDivisor

\* 0.1 * n
Tenths(n) == (n * ScoreOne) \div 10

Counters == {Null, Some(-1), Some(0), Some(1), Some(3), Some(Huge)}

PrizePools == {Null, Some(-1), Some(0), Some(1000), Some(Huge)}

calculateEngagementScore(election) ==
    LET pool      == election.lottery_total_prize_pool
        viewCount == ParseOr0(election.view_count)
        voteCount == ParseOr0(election.vote_count)
        s1 == IF election.status = "active" THEN Tenths(3) ELSE 0
        s2 == IF election.lottery_enabled THEN Tenths(2) ELSE 0
        \* parseFloat(pool) > 0 is false for null (NaN)
        s3 == IF pool # Null /\ pool[1] > 0
              THEN Min((pool[1] * ScoreOne) \div PrizeDivisor, Tenths(2))
              ELSE 0
        \* Math.min(conversionRate * 0.3, 0.3), rounded down to a unit
        s4 == IF viewCount > 0
              THEN Min((voteCount * Tenths(3)) \div viewCount, Tenths(3))
              ELSE 0
    IN  Min(s1 + s2 + s3 + s4, ScoreOne)

(***************************************************************************)
(* transformElectionForShaped                                              *)
(***************************************************************************)
ElectionRows ==
    [election_id : {1}, status : {"active", "draft"},
     start_date : {1}, end_date : {2, 4}, created_at : {Null, Some(0)},
     lottery_enabled : BOOLEAN, lottery_total_prize_pool : PrizePools,
     view_count : Counters, vote_count : Counters]

transformElectionForShaped(election, now) ==
    LET isActive == /\ election.status = "active"
                    /\ now >= election.start_date
                    /\ now <= election.end_date
    IN  [item_id          |-> election.election_id,
         status           |-> election.status,
         start_date       |-> election.start_date,
         end_date         |-> election.end_date,
         view_count       |-> ParseOr0(election.view_count),
         vote_count       |-> ParseOr0(election.vote_count),
         engagement_score |-> calculateEngagementScore(election),
         is_active        |-> isActive,
         days_remaining   |-> Max(0, CeilDiv(election.end_date - now, DayLen)),
         created_at       |-> DateOrNow(election.created_at, now)]

(***************************************************************************)
(* The vote transforms.                                                    *)
(***************************************************************************)
\* text of the `anon_` prefix
AnonPrefix == <<"a", "n", "o", "n", "_">>

\* length of the token prefix kept in an anonymous user id
TokenPrefixLen == 16

\* string.substring(0, n)
substring(str, n) == SubSeq(str, 1, Min(n, Len(str)))

\* ballot tokens: the empty one (null or '') and, for every length up to
\* MaxTokenLen, two tokens that differ in their last character
Tokens ==
    {Null} \cup UNION {{[i \in 1..n |-> "x"],
                        [i \in 1..n |-> IF i = n THEN "y" ELSE "x"]}
                       : n \in 1..MaxTokenLen}

SessionIds == {Null, <<"s", "1">>}

VotingIds == {Null, <<"v", "1">>}

RegularVoteRows ==
    [id : {1}, voting_id : VotingIds, user_id : {1}, election_id : {1},
     created_at : {Null, Some(1)}]

transformRegularVoteToEvent(vote, now, uuid) ==
    [event_id   |-> IF vote.voting_id # Null THEN vote.voting_id ELSE uuid,
     user_id    |-> vote.user_id,
     item_id    |-> vote.election_id,
     event_type |-> "vote_cast",
     label      |-> getEventLabel("vote_cast"),
     created_at |-> DateOrNow(vote.created_at, now)]

AnonymousVoteRows ==
    [id : {1}, voting_id : VotingIds, voting_session_id : SessionIds,
     vote_token : Tokens, election_id : {1}, created_at : {Null, Some(1)}]

\* vote.vote_token?.substring(0, 16) || uuidv4()
TokenPart(token, uuid) ==
    IF substring(token, TokenPrefixLen) # <<>>
    THEN substring(token, TokenPrefixLen)
    ELSE uuid

anonymousUserId(vote, uuid) ==
    IF vote.voting_session_id # Null
    THEN AnonPrefix \o vote.voting_session_id
    ELSE AnonPrefix \o TokenPart(vote.vote_token, uuid)

\* uuid is the generator's value for the user id, uuid2 the one for the
\* event id
transformAnonymousVoteToEvent(vote, now, uuid, uuid2) ==
    [event_id   |-> IF vote.voting_id # Null THEN vote.voting_id ELSE uuid2,
     user_id    |-> anonymousUserId(vote, uuid),
     item_id    |-> vote.election_id,
     event_type |-> "anonymous_vote",
     label      |-> 8,
     created_at |-> DateOrNow(vote.created_at, now)]

ParticipationRows ==
    [id : {1}, voting_session_id : SessionIds, user_id : {1},
     election_id : {1}, voted_at : {Null, Some(2)}, created_at : {1}]

transformParticipationToEvent(participation, now, uuid) ==
    [event_id   |-> IF participation.voting_session_id # Null
                    THEN participation.voting_session_id ELSE uuid,
     user_id    |-> participation.user_id,
     item_id    |-> participation.election_id,
     event_type |-> "participation",
     label      |-> 5,
     created_at |-> IF participation.voted_at # Null
                    THEN participation.voted_at[1]
                    ELSE participation.created_at]

\* the payloads of syncSingleVote
SingleVotePayloads ==
    [userId : {<<"7">>}, electionId : {1}, isAnonymous : BOOLEAN,
     votingId : VotingIds]

\* the event syncSingleVote builds; its two uuidv4() calls may differ
SingleVoteEvent(voteData, now, uuid, uuid2) ==
    [event_id   |-> IF voteData.votingId # Null THEN voteData.votingId
                    ELSE uuid,
     user_id    |-> IF voteData.isAnonymous THEN AnonPrefix \o uuid2
                    ELSE voteData.userId,
     item_id    |-> voteData.electionId,
     event_type |-> IF voteData.isAnonymous THEN "anonymous_vote"
                    ELSE "vote_cast",
     label      |-> IF voteData.isAnonymous THEN 8 ELSE 10,
     created_at |-> now]

\* the kinds track and batch_track are called with: those of EVENT_TYPES
\* and one that is not in the table (batch_track does not validate kinds)
TrackedKinds == DOMAIN EVENT_LABELS \cup {"other_kind"}

(***************************************************************************)
(* filterActiveElections (part_001 64-122): the date column of an item and *)
(* the filter.                                                             *)
(***************************************************************************)
\* a date column of an item: absent, a timestamp, or text that does not parse
NoDate == [kind |-> "none", t |-> 0]

Ts(t) == [kind |-> "ts", t |-> t]

InvalidDate == [kind |-> "invalid", t |-> 0]

\* text without a time zone ("2026-01-31T03:57:00"), and text with an
\* offset ("...+01:00", "...-01:00"): the instant is t - off
Naive(t) == [kind |-> "naive", t |-> t]

Offset(t, off) == [kind |-> "offset", t |-> t, off |-> off]

\* String.prototype.toLowerCase on the status values that occur
toLowerCase(str) ==
    CASE str = "Draft" -> "draft"
      [] str = "CANCELLED" -> "cancelled"
      [] OTHER -> str

\* if (isNaN(endDate.getTime())) return true: text that does not parse
\* keeps the item
InvalidDateDropped == FALSE

InvalidDateKept == TRUE

\* new Date(dateStr) of the text of end_date, after 'Z' has been appended to
\* text that does not end in Z, holds no '+' and does not end in -hh:mm:
\* the instant, or Null for an invalid date
EndInstant(end_date) ==
    CASE end_date.kind = "ts"     -> Some(end_date.t)
      [] end_date.kind = "naive"  -> Some(end_date.t)    \* read as UTC
      [] end_date.kind = "offset" -> Some(end_date.t - end_date.off)
      [] OTHER                    -> Null

\* the filter predicate of filterActiveElections
KeepsEveryElection(election, now) == TRUE

IsActiveElection(election, now) ==
    LET status == toLowerCase(election.status)
    IN  /\ ~(status = "draft" \/ status = "cancelled")
        /\ \/ election.end_date.kind = "none"       \* no end_date: kept
           \/ /\ election.end_date.kind # "none"
              /\ LET endDate == EndInstant(election.end_date)
                 IN  IF endDate = Null
                     THEN InvalidDateKept             \* does not parse
                     ELSE ~(endDate[1] < now)         \* not ended

RECURSIVE filterActiveElections(_, _)
filterActiveElections(elections, now) ==
    IF elections = <<>> THEN <<>>
    ELSE (IF IsActiveElection(Head(elections), now)
          THEN <<Head(elections)>> ELSE <<>>)
         \o filterActiveElections(Tail(elections), now)

\* the lists filterActiveElections is applied to: every single item, and
\* the lists of up to MaxListLen items of a pool of three
MaxListLen == 3

Statuses == {"active", "published", "draft", "Draft", "cancelled",
             "CANCELLED", ""}

EndDates ==
    {NoDate, InvalidDate}
    \cup {Ts(t) : t \in Times} \cup {Naive(t) : t \in Times}
    \cup {Offset(t, off) : t \in {1, 2}, off \in {-1, 1}}

FilterPool ==
    <<[id |-> 1, status |-> "active", end_date |-> Ts(2)],
      [id |-> 2, status |-> "Draft",  end_date |-> NoDate],
      [id |-> 3, status |-> "active", end_date |-> InvalidDate]>>

ElectionLists ==
    {<<[id |-> 0, status |-> st, end_date |-> d]>> :
        st \in Statuses, d \in EndDates}
    \cup {[k \in 1..Len(f) |-> FilterPool[f[k]]] :
            f \in UNION {[1..n -> 1..3] : n \in 0..MaxListLen}}

\* the inputs of getEventLabel: the kinds of the table, two other texts and
\* the names of inherited properties
LabelInputs ==
    DOMAIN EVENT_LABELS \cup {"other_kind", ""} \cup ObjectPrototypeKeys

(***************************************************************************)
(* The scores of getTrendingElections (part_001 343-381) and               *)
(* getPopularElections (439-474), component by component.  Scores are in   *)
(* half points (views count 0.5 each); engagement_score is in tenths; the  *)
(* age of an item is in quarters of the time window; the prize pool is a   *)
(* multiple of 500.  A missing metadata field is Null.                     *)
(***************************************************************************)
\* metadata.x || d: a missing value and 0 give d
OrDefault(x, d) == IF x = Null \/ x = Some(0) THEN d ELSE x[1]

\* recency, max 40: 40 * (1 - ageMs / timeWindowMs) inside the window,
\* 5 outside; ageMs is Math.max(0, now - createdAt)
WindowQuarters == 4

Recency2(age) ==
    IF age < WindowQuarters
    THEN Max(0, 80 - (80 * age) \div WindowQuarters)
    ELSE 10

\* engagement: parseFloat(metadata.engagement_score || 0.1) * 30
TrendingEngagement2(engagement_score) ==
    6 * OrDefault(engagement_score, 1)

\* votes: Math.min(20, parseInt(metadata.vote_count || 0) * 2)
TrendingVotes2(vote_count) == Min(40, 4 * OrDefault(vote_count, 0))

\* views: Math.min(10, parseInt(metadata.view_count || 0) * 0.5)
TrendingViews2(view_count) == Min(20, OrDefault(view_count, 0))

trendingScore(metadata) ==
    [recency    |-> Recency2(metadata.age),
     engagement |-> TrendingEngagement2(metadata.engagement_score),
     votes      |-> TrendingVotes2(metadata.vote_count),
     views      |-> TrendingViews2(metadata.view_count),
     prize      |-> 0,
     base       |-> 0]

\* votes: Math.min(50, voteCount * 5)
PopularVotes2(vote_count) == Min(100, 10 * OrDefault(vote_count, 0))

\* views: Math.min(25, viewCount * 0.5)
PopularViews2(view_count) == Min(50, OrDefault(view_count, 0))

\* engagement: parseFloat(metadata.engagement_score || 0.1) * 15
PopularEngagement2(engagement_score) ==
    3 * OrDefault(engagement_score, 1)

\* prize: if (prizePool > 0) += Math.min(10, prizePool / 1000)
PopularPrize2(lottery_prize_pool) ==
    LET prizePool == OrDefault(lottery_prize_pool, 0)
    IN  IF prizePool > 0 THEN Min(20, prizePool \div 500) ELSE 0

\* popularityScore += 1: "base score so nothing is zero"
popularityScore(metadata) ==
    [recency    |-> 0,
     engagement |-> PopularEngagement2(metadata.engagement_score),
     votes      |-> PopularVotes2(metadata.vote_count),
     views      |-> PopularViews2(metadata.view_count),
     prize      |-> PopularPrize2(metadata.lottery_prize_pool),
     base       |-> 2]

\* the sum the code accumulates
Total(score) ==
    score.recency + score.engagement + score.votes + score.views
    + score.prize + score.base

\* metadata of an item as the platform may hold it
ScoreInputs ==
    [age                : {0, 1, 2, WindowQuarters, 2 * WindowQuarters},
     engagement_score   : {Null, Some(0), Some(5), Some(10), Some(20),
                           Some(-10)},
     vote_count         : {Null, Some(0), Some(3), Some(50), Some(-1)},
     view_count         : {Null, Some(4), Some(100)},
     lottery_prize_pool : {Null, Some(1000), Some(Huge)}]

\* what each transform is applied to
RowsOf(kind) ==
    CASE kind = "user"          -> UserRows
      [] kind = "election"      -> ElectionRows
      [] kind = "regularVote"   -> RegularVoteRows
      [] kind = "anonymousVote" -> AnonymousVoteRows
      [] kind = "participation" -> ParticipationRows
      [] kind = "singleVote"    -> SingleVotePayloads
      [] kind = "track"         -> [eventType : TrackedKinds]
      [] kind = "electionList"  -> ElectionLists
      [] kind = "label"         -> [eventType : LabelInputs]
      [] kind = "trending"      -> ScoreInputs
      [] kind = "popular"       -> ScoreInputs

TransformKinds ==
    {"user", "election", "regularVote", "anonymousVote", "participation",
     "singleVote", "track", "electionList", "label", "trending",
     "popular"}

\* no transform under way
XformIdle ==
    /\ xKind = "none"
    /\ xRow = Null
    /\ xNow = <<>>
    /\ xOut = <<>>

\* a row of one of the tables (or a payload), before it is transformed
XformInputs ==
    /\ xKind \in TransformKinds
    /\ xRow \in RowsOf(xKind)
    /\ xNow = <<>>
    /\ xOut = <<>>

\* the clock never runs backwards between two runs
LaterTimes == {t \in Times : xNow = <<>> \/ t >= xNow[Len(xNow)]}

\* one application of a transform to the row, reading `now` from the clock;
\* a sync run transforms the row once, so two applications are two runs
Apply(kind, now, out) ==
    /\ xKind = kind
    /\ Len(xOut) < 2
    /\ xOut' = Append(xOut, out)
    /\ xNow' = Append(xNow, now)
    /\ UNCHANGED <<xKind, xRow>>
    /\ UNCHANGED <<moreVars, trackerVars, batchVars, syncVars, driverVars, singleVars,
                   forYouVars>>

TransformUser ==
    \E now \in LaterTimes :
        Apply("user", now, transformUserForShaped(xRow, now))

TransformElection ==
    \E now \in LaterTimes :
        Apply("election", now, transformElectionForShaped(xRow, now))

TransformRegularVote ==
    \E now \in LaterTimes, uuid \in Uuids :
        Apply("regularVote", now, transformRegularVoteToEvent(xRow, now, uuid))

TransformAnonymousVote ==
    \E now \in LaterTimes, uuid \in Uuids, uuid2 \in Uuids :
        Apply("anonymousVote", now,
              transformAnonymousVoteToEvent(xRow, now, uuid, uuid2))

TransformParticipation ==
    \E now \in LaterTimes, uuid \in Uuids :
        Apply("participation", now,
              transformParticipationToEvent(xRow, now, uuid))

BuildSingleVoteEvent ==
    \E now \in LaterTimes, uuid \in Uuids, uuid2 \in Uuids :
        Apply("singleVote", now, SingleVoteEvent(xRow, now, uuid, uuid2))

\* trackEvent and batchTrackEvents: createBaseEvent on the caller's kind
CreateTrackedEvent ==
    \E now \in LaterTimes :
        Apply("track", now, createBaseEvent(xRow.eventType))

\* getEventLabel, isPositiveEvent and isNegativeEvent on one input
ClassifyEvent ==
    \E now \in LaterTimes :
        Apply("label", now,
              [label    |-> EventLabelValue(xRow.eventType),
               positive |-> isPositiveEvent(xRow.eventType),
               negative |-> isNegativeEvent(xRow.eventType)])

\* the score getTrendingElections gives an item
ScoreTrending ==
    \E now \in LaterTimes :
        Apply("trending", now, trendingScore(xRow))

\* the score getPopularElections gives an item
ScorePopular ==
    \E now \in LaterTimes :
        Apply("popular", now, popularityScore(xRow))

\* filterActiveElections on a list of items
FilterActiveElections ==
    \E now \in LaterTimes :
        Apply("electionList", now, filterActiveElections(xRow, now))

(***************************************************************************)
(* The for-you read: getElectionsForYou (part_001 130-264) with            *)
(* getUserVoteCount (23-34), getTrendingForNewUsers (39-58),               *)
(* filterActiveElections (64-122) and getFallbackElections (623-644), and  *)
(* its HTTP controller (recommendationController.js 13-28).                *)
(*                                                                         *)
(* The platform answers a query or a rank call with a list of items or     *)
(* with an error; an item carries the columns the election sync uploaded.  *)
(***************************************************************************)
\* largest limit and offset a caller passes, largest vote count of a user,
\* longest list the platform returns
MaxLimit == 2
MaxOffset == 1
MaxVotes == 2
MaxResults == 3

\* the items of the platform's table (id and metadata)
Catalog ==
    <<[id |-> 1, status |-> "active", end_date |-> Ts(MaxNow),
       category_id |-> 1, lottery_enabled |-> TRUE,
       lottery_prize_pool |-> 2000, vote_count |-> 0, view_count |-> 0],
      [id |-> 2, status |-> "Draft", end_date |-> Ts(MaxNow),
       category_id |-> 1, lottery_enabled |-> TRUE,
       lottery_prize_pool |-> 3000, vote_count |-> 2, view_count |-> 0],
      [id |-> 3, status |-> "active", end_date |-> Ts(1),
       category_id |-> 2, lottery_enabled |-> TRUE,
       lottery_prize_pool |-> 3000, vote_count |-> 1, view_count |-> 4],
      [id |-> 4, status |-> "cancelled", end_date |-> NoDate,
       category_id |-> 2, lottery_enabled |-> FALSE,
       lottery_prize_pool |-> 0, vote_count |-> 0, view_count |-> 0]>>

\* the lists the platform may answer with: items of the table, none twice
Responses ==
    {r \in UNION {[1..n -> 1..Len(Catalog)] : n \in 0..MaxResults} :
        \A i, j \in 1..Len(r) : i # j => r[i] # r[j]}

Results(r) == [k \in 1..Len(r) |-> Catalog[r[k]]]

\* the errors a call to the platform may fail with: error.response?.status
\* (0 when there is no response) and whether error.message includes 'user'
PlatformErrors == [status : {0, 404, 500}, aboutUser : BOOLEAN]

\* results.map(item => ({ id, ...item.metadata, recommendation_source,
\* recommendation_type, personalized_for_user }))
Tagged(results, type, personalized) ==
    [k \in 1..Len(results) |->
        [id                    |-> results[k].id,
         status                |-> results[k].status,
         end_date              |-> results[k].end_date,
         recommendation_source |-> "shaped_ai",
         recommendation_type   |-> type,
         personalized_for_user |-> personalized]]

\* if (offset > 0) results = results.slice(offset)
SliceFrom(results, offset) == SubSeq(results, offset + 1, Len(results))

\* the identity check of getElectionsForYou
\* (!userId || userId === 'undefined' || userId === 'null') negated
UsableIdentity(userId) ==
    ~(userId = "" \/ userId = "undefined" \/ userId = "null")

\* the controller: req.query.userId || req.user?.id || 'anonymous'
ControllerUserId(queryUserId, authUserId) ==
    IF queryUserId # "" THEN queryUserId
    ELSE IF authUserId # "" THEN authUserId
    ELSE "anonymous"

\* if (userVoteCount === 0): the new-user branch
TreatsEveryoneAsReturning(userVoteCount) == FALSE

IsNewUser(userVoteCount) == userVoteCount = 0

\* catch (rankError): the generic query is tried before anything else
RankFailureGoesToDatabase == FALSE

RankFailureTriesQuery == TRUE

\* the three messages of the trending branch
PleaseLogin ==
    "Please login to get personalized recommendations. Showing trending elections."

NotVotedYet ==
    "You have not voted yet. Showing trending elections to get you started!"

VoteToPersonalize ==
    "Showing trending elections. Vote to get personalized recommendations!"

\* `Based on your ${userVoteCount} vote(s), ${tail}`: the text with the
\* count that is put into it
BasedOnVotes(userVoteCount, tail) ==
    [text |-> "Based on your {count} vote(s), " \o tail,
     count |-> userVoteCount]

\* the value the trending branch returns for the list getTrendingForNewUsers
\* gave (already tagged), filtered at `now`
TrendingResult(trendingElections, now, message) ==
    LET activeElections == filterActiveElections(trendingElections, now)
    IN  [success             |-> TRUE,
         data                |-> slice(activeElections, 0, fLimit),
         pagination          |-> [limit |-> fLimit, offset |-> fOffset,
                                  total |-> Len(activeElections)],
         message             |-> [text |-> message],
         is_new_user         |-> TRUE,
         user_vote_count     |-> 0,
         recommendation_type |-> "trending"]

\* the value the returning-user branches return: results of the rank call
\* (type "personalized") or of the generic query (type "general")
\* the page cut from the platform's answer: results.slice(offset), map,
\* filterActiveElections, slice(0, limit), in this order
PageData(results, now, type, offset, limit) ==
    slice(filterActiveElections(
              Tagged(SliceFrom(results, offset), type,
                     type = "personalized"), now),
          0, limit)

ReturningResult(results, now, type) ==
    LET personalized == (type = "personalized")
        elections == PageData(results, now, type, fOffset, fLimit)
    IN  [success             |-> TRUE,
         data                |-> elections,
         pagination          |-> [limit |-> fLimit, offset |-> fOffset,
                                  total |-> Len(elections)],
         message             |-> BasedOnVotes(fVoteCount,
                                   IF personalized
                                   THEN "here are elections recommended for you."
                                   ELSE "here are elections you might like."),
         is_personalized     |-> personalized,
         is_new_user         |-> FALSE,
         user_vote_count     |-> fVoteCount,
         recommendation_type |-> type]

\* the rows getFallbackElections' SELECT finds (published or active, not
\* ended, newest first), before LIMIT and OFFSET
DbElections == <<[id |-> 11], [id |-> 12], [id |-> 13]>>

FallbackResult ==
    [success |-> TRUE,
     data    |-> slice(DbElections, fOffset, fOffset + fLimit),
     source  |-> "database_fallback"]

FallbackFailed == [success |-> FALSE, data |-> <<>>, error |-> "db"]

NoForYouRet == [pending |-> TRUE]

ForYouInit ==
    /\ fPc = "idle"
    /\ fReqUserId = ""
    /\ fAuthUserId = ""
    /\ fUserId = ""
    /\ fLimit = 1
    /\ fOffset = 0
    /\ fDbCount = 0
    /\ fVoteCount = 0
    /\ fCalls = <<>>
    /\ fResponse = <<>>
    /\ fNow = 0
    /\ fRet = NoForYouRet

\* a call is issued and awaited
Issue(call) == Append(fCalls, [call |-> call, result |-> "pending"])

\* the awaited call (the last one issued) settles
Settled(result) == [fCalls EXCEPT ![Len(fCalls)].result = result]

\* getElectionsForYou(userId, { limit, offset }) up to its first await
StartForYou(userId, limit, offset, count) ==
    /\ fPc = "idle"
    /\ rPc = "idle"          \* one read at a time
    /\ fUserId' = userId
    /\ fLimit' = limit
    /\ fOffset' = offset
    /\ fDbCount' = count
    /\ IF UsableIdentity(userId)
       THEN /\ fPc' = "voteCount"
            /\ fCalls' = Issue("voteCount")
       ELSE /\ fPc' = "trendingAnon"
            /\ fCalls' = Issue("query")
    /\ UNCHANGED <<fVoteCount, fResponse, fNow, fRet>>
    /\ UNCHANGED <<moreVars, trackerVars, batchVars, syncVars, driverVars, singleVars,
                   xformVars>>

\* the service function called directly with any userId
getElectionsForYou ==
    \E userId \in {"", "undefined", "null", "u1"}, limit \in 1..MaxLimit,
       offset \in 0..MaxOffset, count \in 0..MaxVotes :
        /\ StartForYou(userId, limit, offset, count)
        /\ fReqUserId' = userId
        /\ fAuthUserId' = ""

\* GET /recommendations/elections: the controller picks the userId
controllerGetElectionsForYou ==
    \E queryUserId \in {"", "undefined", "null", "u1"},
       authUserId \in {"", "u2"}, limit \in 1..MaxLimit,
       offset \in 0..MaxOffset, count \in 0..MaxVotes :
        /\ StartForYou(ControllerUserId(queryUserId, authUserId), limit,
                       offset, count)
        /\ fReqUserId' = queryUserId
        /\ fAuthUserId' = authUserId

\* the awaited call settles and the next one is issued
SettleThen(result, call) ==
    Append(Settled(result), [call |-> call, result |-> "pending"])

\* what a step of the read leaves alone
ForYouFrame ==
    /\ UNCHANGED <<fReqUserId, fAuthUserId, fUserId, fLimit, fOffset, fDbCount>>
    /\ UNCHANGED <<moreVars, trackerVars, batchVars, syncVars, driverVars, singleVars,
                   xformVars>>

\* getUserVoteCount has answered `count` (0 when its query failed): the
\* new-user branch asks for the trending items, the other one for a ranking
VoteCountSettles(count, result) ==
    /\ fPc = "voteCount"
    /\ fVoteCount' = count
    /\ IF IsNewUser(count)
       THEN /\ fPc' = "trendingNew"
            /\ fCalls' = SettleThen(result, "query")
       ELSE /\ fPc' = "rank"
            /\ fCalls' = SettleThen(result, "rank")
    /\ UNCHANGED <<fResponse, fNow, fRet>>
    /\ ForYouFrame

getUserVoteCountReturns == VoteCountSettles(fDbCount, "ok")

getUserVoteCountFails == VoteCountSettles(0, "failed")

\* the outer catch block: the trending branch for a 404 or a message that
\* includes 'user', the database fallback otherwise
OuterCatch(err) ==
    /\ IF err.status = 404 \/ err.aboutUser
       THEN /\ fPc' = "trendingCatch"
            /\ fCalls' = SettleThen("failed", "query")
       ELSE /\ fPc' = "dbFallback"
            /\ fCalls' = SettleThen("failed", "dbFallback")
    /\ UNCHANGED <<fVoteCount, fResponse, fNow, fRet>>
    /\ ForYouFrame

\* POST /engines/.../rank resolves
RankReturns ==
    \E r \in Responses, now \in Times :
        /\ fPc = "rank"
        /\ fPc' = "returned"
        /\ fCalls' = Settled("ok")
        /\ fRet' = ReturningResult(Results(r), now, "personalized")
        /\ fResponse' = Results(r)
        /\ fNow' = now
        /\ UNCHANGED fVoteCount
        /\ ForYouFrame

\* POST /engines/.../rank rejects: catch (rankError) issues the generic query
RankFails ==
    \E err \in PlatformErrors :
        /\ fPc = "rank"
        /\ IF RankFailureTriesQuery
           THEN /\ fPc' = "query"
                /\ fCalls' = SettleThen("failed", "query")
                /\ UNCHANGED <<fVoteCount, fResponse, fNow, fRet>>
                /\ ForYouFrame
           ELSE OuterCatch(err)

\* the generic query of the catch (rankError) block resolves
GeneralQueryReturns ==
    \E r \in Responses, now \in Times :
        /\ fPc = "query"
        /\ fPc' = "returned"
        /\ fCalls' = Settled("ok")
        /\ fRet' = ReturningResult(Results(r), now, "general")
        /\ fResponse' = Results(r)
        /\ fNow' = now
        /\ UNCHANGED fVoteCount
        /\ ForYouFrame

\* it rejects: the error reaches the outer catch
GeneralQueryFails ==
    \E err \in PlatformErrors :
        /\ fPc = "query"
        /\ OuterCatch(err)

TrendingMessage ==
    CASE fPc = "trendingAnon"  -> PleaseLogin
      [] fPc = "trendingNew"   -> NotVotedYet
      [] fPc = "trendingCatch" -> VoteToPersonalize

\* getTrendingForNewUsers' query resolves: the items are tagged 'trending'
TrendingReturns ==
    \E r \in Responses, now \in Times :
        /\ fPc \in {"trendingAnon", "trendingNew", "trendingCatch"}
        /\ fPc' = "returned"
        /\ fCalls' = Settled("ok")
        /\ fRet' = TrendingResult(Tagged(Results(r), "trending", FALSE), now,
                                  TrendingMessage)
        /\ fResponse' = Results(r)
        /\ fNow' = now
        /\ UNCHANGED fVoteCount
        /\ ForYouFrame

\* it rejects: getTrendingForNewUsers catches the error and returns []
TrendingFails ==
    \E now \in Times :
        /\ fPc \in {"trendingAnon", "trendingNew", "trendingCatch"}
        /\ fPc' = "returned"
        /\ fCalls' = Settled("failed")
        /\ fRet' = TrendingResult(<<>>, now, TrendingMessage)
        /\ fResponse' = <<>>
        /\ fNow' = now
        /\ UNCHANGED fVoteCount
        /\ ForYouFrame

\* getFallbackElections' SELECT resolves
FallbackReturns ==
    /\ fPc = "dbFallback"
    /\ fPc' = "returned"
    /\ fCalls' = Settled("ok")
    /\ fRet' = FallbackResult
    /\ UNCHANGED <<fVoteCount, fResponse, fNow>>
    /\ ForYouFrame

\* it rejects: getFallbackElections catches the error
FallbackFails ==
    /\ fPc = "dbFallback"
    /\ fPc' = "returned"
    /\ fCalls' = Settled("failed")
    /\ fRet' = FallbackFailed
    /\ UNCHANGED <<fVoteCount, fResponse, fNow>>
    /\ ForYouFrame

(***************************************************************************)
(* The other list reads of the orchestrator (part_001): getSimilarElections*)
(* (269-311), getTrendingElections (322-410), getPopularElections          *)
(* (419-503), getLotterizedPicks (508-556), getElectionsByCategory         *)
(* (561-597), getAudienceForElection (602-614) and their getFallback*      *)
(* functions (649-831).  Each one awaits at most one query of the platform *)
(* and at most one SELECT of the database.                                 *)
(***************************************************************************)
ReadOps == {"similar", "trending", "popular", "lotterized", "category",
            "audience"}

\* results.map(item => ({ id: item.id, ...item.metadata, <source>: 'shaped_ai' }))
Sourced(results, sourceField) ==
    [k \in 1..Len(results) |->
        [id                 |-> results[k].id,
         status             |-> results[k].status,
         end_date           |-> results[k].end_date,
         category_id        |-> results[k].category_id,
         lottery_enabled    |-> results[k].lottery_enabled,
         lottery_prize_pool |-> results[k].lottery_prize_pool,
         vote_count         |-> results[k].vote_count,
         view_count         |-> results[k].view_count,
         source_field       |-> sourceField,
         source             |-> "shaped_ai"]]

\* Array.prototype.sort with the comparator (a, b) => key(b) - key(a): the
\* sort is stable, so items of equal key keep their order; keys[i] is the
\* key of items[i]
SortDescBy(items, keys) ==
    LET before(j, i) ==
            \/ keys[j] > keys[i]
            \/ keys[j] = keys[i] /\ j < i
        pos(i) == 1 + Cardinality({j \in 1..Len(items) : before(j, i)})
    IN  [p \in 1..Len(items) |->
            items[CHOOSE i \in 1..Len(items) : pos(i) = p]]

\* the trending score in half points, of an item without created_at,
\* start_date and engagement_score: recency 40 (age 0), engagement
\* 0.1 * 30, votes min(20, 2 v), views min(10, v / 2)
TrendingScore2(item) ==
    Total(trendingScore([age |-> 0, engagement_score |-> Null,
                         vote_count |-> Some(item.vote_count),
                         view_count |-> Some(item.view_count)]))

\* the popularity score in half points: votes min(50, 5 v), views
\* min(25, v / 2), engagement 0.1 * 15, prize min(10, p / 1000) when p > 0,
\* base 1
PopularityScore2(item) ==
    Total(popularityScore([engagement_score |-> Null,
                           vote_count |-> Some(item.vote_count),
                           view_count |-> Some(item.view_count),
                           lottery_prize_pool |->
                               Some(item.lottery_prize_pool)]))

PrizePool(item) == item.lottery_prize_pool

\* the score the read sorts by
ScoreFor(sourceField, item) ==
    IF sourceField = "trending_source"
    THEN TrendingScore2(item)
    ELSE PopularityScore2(item)

IsActiveAt(now, election) == IsActiveElection(election, now)

\* what each read makes of the platform's answer; "fallback" when it turns
\* to the database instead (trending and popular, on an empty list)
SimilarFromPlatform(results, electionId, excludeSelf, limit) ==
    LET notSelf(item) == item.id # electionId
        others == IF excludeSelf THEN SelectSeq(results, notSelf) ELSE results
    IN  [success            |-> TRUE,
         data               |-> Sourced(slice(others, 0, limit),
                                        "similarity_source"),
         source_election_id |-> electionId]

\* the same without the two early returns to the fallback
ScoredWithoutFallback(results, now, limit, sourceField) ==
    [success |-> TRUE,
     data    |-> slice(filterActiveElections(Sourced(results, sourceField),
                                             now), 0, limit)]

ScoredFromPlatform(results, now, limit, sourceField) ==
    LET elections == filterActiveElections(Sourced(results, sourceField), now)
        scores == [i \in 1..Len(elections) |->
                      ScoreFor(sourceField, elections[i])]
    IN  IF Len(results) = 0 \/ Len(elections) = 0
        THEN [fallback |-> TRUE]
        ELSE [success |-> TRUE,
              data    |-> slice(SortDescBy(elections, scores), 0, limit)]

LotterizedFromPlatform(results, now, limit, minPrize) ==
    LET enabled(item) == item.lottery_enabled = TRUE
        rich(item) == item.lottery_prize_pool >= minPrize
        lottery == SelectSeq(results, enabled)
        atLeast == IF minPrize > 0 THEN SelectSeq(lottery, rich) ELSE lottery
        sorted == SortDescBy(atLeast,
                             [i \in 1..Len(atLeast) |-> PrizePool(atLeast[i])])
    IN  [success |-> TRUE,
         data    |-> slice(filterActiveElections(
                               Sourced(sorted, "lotterized_source"), now),
                           0, limit)]

CategoryFromPlatform(results, now, limit, categoryId) ==
    LET inCategory(item) == item.category_id = categoryId
    IN  [success     |-> TRUE,
         data        |-> slice(filterActiveElections(
                                  Sourced(SelectSeq(results, inCategory),
                                          "category_source"), now),
                               0, limit),
         category_id |-> categoryId]

FromPlatform(op, results, now) ==
    CASE op = "similar" ->
            SimilarFromPlatform(results, rArg, rExcludeSelf, rLimit)
      [] op = "trending" ->
            ScoredFromPlatform(results, now, rLimit, "trending_source")
      [] op = "popular" ->
            ScoredFromPlatform(results, now, rLimit, "popular_source")
      [] op = "lotterized" ->
            LotterizedFromPlatform(results, now, rLimit, rArg)
      [] op = "category" ->
            CategoryFromPlatform(results, now, rLimit, rArg)

\* the rows a getFallback* SELECT finds before its LIMIT
ReadDbRows == <<[id |-> 21], [id |-> 22], [id |-> 23]>>

ReadFallbackResult ==
    [success |-> TRUE,
     data    |-> slice(ReadDbRows, 0, rLimit),
     source  |-> "database_fallback"]

\* the catch blocks of the getFallback* functions: success is false, except
\* in getFallbackTrendingElections (705) and getFallbackPopularElections
\* (741), which answer success: true
FallbackFailureSuccessFlag(op) == op \in {"trending", "popular"}

\* a getFallback* function catches the error of its query
FallbackRethrows == FALSE

FallbackCatches == TRUE

ReadFallbackFailed(op) ==
    [success |-> FallbackFailureSuccessFlag(op), data |-> <<>>,
     error |-> "db"]

NoReadRet == [pending |-> TRUE]

ReadInit ==
    /\ rPc = "idle"
    /\ rOp = "none"
    /\ rLimit = 1
    /\ rArg = 0
    /\ rExcludeSelf = TRUE
    /\ rCalls = <<>>
    /\ rResponse = <<>>
    /\ rNow = 0
    /\ rRet = NoReadRet


\* the state of the parts modelled before the list reads
earlierVars == <<trackerVars, batchVars, syncVars, driverVars, singleVars,
                 xformVars, forYouVars>>

ReadFrame ==
    /\ UNCHANGED <<rOp, rLimit, rArg, rExcludeSelf>>
    /\ UNCHANGED <<earlierVars, clientVars, httpVars, lastVars>>

\* a read up to its first await: the query of the platform, or for the
\* audience the SELECT of the database
StartRead(op, limit, arg, excludeSelf) ==
    /\ rPc = "idle"
    /\ fPc = "idle"          \* one read at a time
    /\ rOp' = op
    /\ rLimit' = limit
    /\ rArg' = arg
    /\ rExcludeSelf' = excludeSelf
    /\ IF op = "audience"
       THEN /\ rPc' = "fallback"
            /\ rCalls' = <<[call |-> "dbFallback", result |-> "pending"]>>
       ELSE /\ rPc' = "external"
            /\ rCalls' = <<[call |-> "query", result |-> "pending"]>>
    /\ UNCHANGED <<rResponse, rNow, rRet>>
    /\ UNCHANGED <<earlierVars, clientVars, httpVars, lastVars>>

getSimilarElections ==
    \E electionId \in 1..Len(Catalog), limit \in 1..MaxLimit,
       excludeSelf \in BOOLEAN :
        StartRead("similar", limit, electionId, excludeSelf)

getTrendingElections ==
    \E limit \in 1..MaxLimit : StartRead("trending", limit, 0, TRUE)

getPopularElections ==
    \E limit \in 1..MaxLimit : StartRead("popular", limit, 0, TRUE)

getLotterizedPicks ==
    \E limit \in 1..MaxLimit, minPrize \in {0, 3000} :
        StartRead("lotterized", limit, minPrize, TRUE)

getElectionsByCategory ==
    \E limit \in 1..MaxLimit, categoryId \in {1, 2} :
        StartRead("category", limit, categoryId, TRUE)

getAudienceForElection ==
    \E electionId \in 1..Len(Catalog), limit \in 1..MaxLimit :
        StartRead("audience", limit, electionId, TRUE)

ReadSettled(result) == [rCalls EXCEPT ![Len(rCalls)].result = result]

\* the platform's query resolves
ReadQueryReturns ==
    \E r \in Responses, now \in Times :
        /\ rPc = "external"
        /\ rResponse' = Results(r)
        /\ rNow' = now
        /\ LET made == FromPlatform(rOp, Results(r), now)
           IN  IF "fallback" \in DOMAIN made
               THEN /\ rPc' = "fallback"
                    /\ rCalls' = Append(ReadSettled("ok"),
                                    [call |-> "dbFallback",
                                     result |-> "pending"])
                    /\ UNCHANGED rRet
               ELSE /\ rPc' = "returned"
                    /\ rCalls' = ReadSettled("ok")
                    /\ rRet' = made
        /\ ReadFrame

\* it rejects: the catch block turns to the database
ReadQueryFails ==
    /\ rPc = "external"
    /\ rPc' = "fallback"
    /\ rCalls' = Append(ReadSettled("failed"),
                        [call |-> "dbFallback", result |-> "pending"])
    /\ UNCHANGED <<rResponse, rNow, rRet>>
    /\ ReadFrame

\* the SELECT of the getFallback* function resolves
ReadFallbackReturns ==
    /\ rPc = "fallback"
    /\ rPc' = "returned"
    /\ rCalls' = ReadSettled("ok")
    /\ rRet' = ReadFallbackResult
    /\ UNCHANGED <<rResponse, rNow>>
    /\ ReadFrame

\* it rejects
ReadFallbackFails ==
    /\ rPc = "fallback"
    /\ rPc' = "returned"
    /\ rCalls' = ReadSettled("failed")
    /\ rRet' = IF FallbackCatches THEN ReadFallbackFailed(rOp)
               ELSE [threw |-> "db"]
    /\ UNCHANGED <<rResponse, rNow>>
    /\ ReadFrame

(***************************************************************************)
(* ShapedClient.createTable (part_000 247-259) and createEngine (352-364): *)
(* one POST; the platform answers with a status, or not at all.            *)
(***************************************************************************)
ResourceNames == {"vottery_users", "vottery_elections", "vottery_events"}

\* statuses of a response; 0 stands for an error without a response
Statuses2xx == {200, 201}

ResponseStatuses == Statuses2xx \cup {0, 400, 401, 404, 409, 422, 500, 503}

\* error.response?.status === 409 || error.response?.status === 422
NoConflictStatuses == {}

ConflictStatuses == {409, 422}

AlreadyExists(name) == [exists |-> TRUE, name |-> name]

NoClientRet == [pending |-> TRUE]

ClientInit ==
    /\ cPc = "idle"
    /\ cOp = "none"
    /\ cName = ""
    /\ cStatus = 0
    /\ cExisting = {}
    /\ cRet = NoClientRet

\* the state of everything but the client
notClientVars == <<earlierVars, readVars, httpVars, lastVars>>

\* create* up to the await of the POST; the setup job and the full sync
\* call it again and again
StartCreate(op, name) ==
    /\ cPc # "posting"
    /\ cPc' = "posting"
    /\ cOp' = op
    /\ cName' = name
    /\ cRet' = NoClientRet
    /\ UNCHANGED <<cStatus, cExisting>>
    /\ UNCHANGED notClientVars

createTable == \E name \in ResourceNames : StartCreate("createTable", name)

createEngine == \E name \in ResourceNames : StartCreate("createEngine", name)

\* the POST resolves (axios resolves for a 2xx status): return response.data
PostResolves ==
    \E status \in Statuses2xx :
        /\ cPc = "posting"
        /\ cPc' = "returned"
        /\ cStatus' = status
        /\ cExisting' = cExisting \cup {<<cOp, cName>>}
        /\ cRet' = [data |-> [name |-> cName]]
        /\ UNCHANGED <<cOp, cName>>
        /\ UNCHANGED notClientVars

\* the POST rejects: the catch block returns for a conflict status and
\* throws the error again for anything else
PostRejects ==
    \E status \in ResponseStatuses \ Statuses2xx :
        /\ cPc = "posting"
        /\ cStatus' = status
        /\ IF status \in ConflictStatuses
           THEN /\ cPc' = "returned"
                /\ cRet' = AlreadyExists(cName)
           ELSE /\ cPc' = "threw"
                /\ cRet' = [threw |-> status]
        /\ UNCHANGED <<cOp, cName, cExisting>>
        /\ UNCHANGED notClientVars

(***************************************************************************)
(* The scheduled sync job (jobs/scheduledSync.js): runUserSync (15-26) and *)
(* runElectionSync (28-39) call the family's sync with                     *)
(* since: last<Family>Sync and, when it has returned, set the cursor to    *)
(* new Date(); when it throws they log and throw again.  Rows of the       *)
(* relational table are updated by the rest of the platform at any moment, *)
(* also while a run is under way; an update stamps the row with the clock. *)
(***************************************************************************)
\* how far the clock runs beyond the start of the process, how many runs
\* the cron starts, and the rows of the table the job reads
MaxTicks == 1
MaxRuns == 2
MaxJobRows == 2

\* lastUserSync = new Date() after the await, and nothing in the catch
CursorMovesAnyway(cursor, returned, now) == now

CursorAfter(cursor, returned, now) == IF returned THEN now ELSE cursor

\* elections.map(transformElectionForShaped): the page as it is at the
\* moment the query returned it
Versions(page) == {<<page[k], rows[page[k]].ts>> : k \in 1..Len(page)}

JobInit ==
    /\ jPc = "idle"
    /\ jClock = MaxTs
    /\ lastUserSync = MaxTs
    /\ lastElectionSync = MaxTs
    /\ jSince = NoSince
    /\ jRuns = 0
    /\ jSinces = {}
    /\ jFetched = {}
    /\ jUploaded = {}

notJobVars == <<driverVars, singleVars, xformVars, forYouVars, readVars,
                clientVars, httpVars, exitVars>>

\* time passes
Tick ==
    /\ jClock < MaxTs + MaxTicks
    /\ jClock' = jClock + 1
    /\ UNCHANGED <<jPc, lastUserSync, lastElectionSync, jSince, jRuns,
                   jSinces, jFetched, jUploaded>>
    /\ UNCHANGED <<trackerVars, batchVars, syncVars, notJobVars>>

\* UPDATE ... SET updated_at = NOW() by another service
UpdateRow ==
    \E r \in RowIds :
        /\ rows[r].ts < jClock
        /\ rows' = [rows EXCEPT ![r].ts = jClock]
        /\ UNCHANGED <<family, since, statusFilter, sPc, sOffset,
                       sTotalSynced, sPage, sFetches, sInserted, sRet>>
        /\ UNCHANGED <<trackerVars, batchVars, jobVars, notJobVars>>

\* a cron tick calls run<Family>Sync, which runs up to the first page query
StartRun(f, cursor) ==
    /\ jPc = "idle"
    /\ jRuns < MaxRuns
    /\ jRuns' = jRuns + 1
    /\ BeginSync(f, cursor, FALSE)
    /\ jPc' = f
    /\ jSince' = cursor
    /\ jFetched' = {}
    /\ UNCHANGED <<jClock, lastUserSync, lastElectionSync, jSinces,
                   jUploaded>>
    /\ UNCHANGED notJobVars

runUserSync == StartRun("users", lastUserSync)

runElectionSync == StartRun("elections", lastElectionSync)

\* a step of the sync that is awaited and, when the sync returns or throws
\* in that step, the rest of run<Family>Sync
RunStep(SyncStep) ==
    /\ jPc # "idle"
    /\ SyncStep
    /\ jFetched' = IF sPc' = "uploading" /\ jPc = "elections"
                   THEN Versions(sPage') ELSE {}
    /\ jUploaded' = IF Len(sInserted') > Len(sInserted)
                    THEN jUploaded \cup jFetched ELSE jUploaded
    /\ IF sPc' \in {"returned", "threw"}
       THEN /\ jPc' = "idle"
            /\ jSinces' = IF jPc = "elections"
                          THEN jSinces \cup {jSince} ELSE jSinces
            /\ lastUserSync' =
                  IF jPc = "users"
                  THEN CursorAfter(lastUserSync, sPc' = "returned", jClock)
                  ELSE lastUserSync
            /\ lastElectionSync' =
                  IF jPc = "elections"
                  THEN CursorAfter(lastElectionSync, sPc' = "returned", jClock)
                  ELSE lastElectionSync
       ELSE UNCHANGED <<jPc, jSinces, lastUserSync, lastElectionSync>>
    /\ UNCHANGED <<jClock, jSince, jRuns>>
    /\ UNCHANGED notJobVars

RunFetchReturns == RunStep(FetchReturnsStep)

RunFetchFails == RunStep(FetchFailsStep)

RunUploadSucceeds == RunStep(UploadSucceedsStep)

RunUploadFails == RunStep(UploadFailsStep)

(***************************************************************************)
(* Graceful shutdown (app.js 91-106): on SIGTERM or SIGINT                 *)
(* await forceFlush(); await db.close(); process.exit(0), and              *)
(* process.exit(1) when one of the two throws.  forceFlush is one call of  *)
(* flushEventBuffer, which catches the error of its upload.                *)
(***************************************************************************)
NoFlight == [op |-> "none", batch |-> <<>>, event |-> NoEvent]

ExitInit ==
    /\ ePc = "running"
    /\ eFlight = NoFlight
    /\ eAtSignal = {}

\* the events of the uploads a flush is awaiting
InFlush == UNION {Elems(f.batch) : f \in {g \in flights : g.op = "flush"}}

notExitVars == <<driverVars, singleVars, xformVars, forYouVars, readVars,
                 clientVars, httpVars, jobVars>>

\* the signal handler up to its first await
shutdown ==
    /\ ePc = "running"
    /\ eAtSignal' = Elems(eventBuffer) \cup InFlush
    /\ flushEventBufferCall
    /\ IF Len(eventBuffer) = 0
       THEN /\ ePc' = "closing"
            /\ UNCHANGED eFlight
       ELSE /\ ePc' = "flushing"
            /\ eFlight' = [op |-> "flush", batch |-> eventBuffer,
                           event |-> NoEvent]
    /\ UNCHANGED notExitVars

\* the upload of forceFlush has settled, either way: db.close() is awaited
ShutdownFlushSettled ==
    /\ ePc = "flushing"
    /\ eFlight \notin flights
    /\ ePc' = "closing"
    /\ UNCHANGED <<eFlight, eAtSignal>>
    /\ UNCHANGED <<trackerVars, batchVars, syncVars, notExitVars>>

\* db.close() has settled: process.exit(0), or process.exit(1) from the
\* catch block
ProcessExits ==
    /\ ePc = "closing"
    /\ ePc' = "exited"
    /\ UNCHANGED <<eFlight, eAtSignal>>
    /\ UNCHANGED <<trackerVars, batchVars, syncVars, notExitVars>>

\* until the process has exited its handlers and timers go on running
Alive == ePc # "exited"

(***************************************************************************)
(* The event controller (utils/logger.js 136-289): the handlers of         *)
(* POST /events/track (trackEvent, 144-162), POST /events/vote (trackVote, *)
(* 164-178) and POST /events/batch (batchTrackEvents, 244-264).  A handler *)
(* either answers 400 itself or calls the service and answers with what    *)
(* the service returns.                                                    *)
(***************************************************************************)
\* requests the controller handles in one behaviour, and the longest
\* events array of a batch request
MaxRequests == 2
MaxBodyLen == 2

\* a field that is missing is the empty text
TrackBodies ==
    [userId : {"", "u1"}, electionId : {"", "e1"},
     eventType : EventTypes \cup {"", "bogus"}]

VoteBodies == [userId : {"", "u1"}, electionId : {"", "e1"}]

BatchEventPool ==
    {[userId |-> "u1", electionId |-> "e1", eventType |-> "view_election"],
     [userId |-> "u1", electionId |-> "e1", eventType |-> "vote_cast"],
     [userId |-> "",   electionId |-> "e1", eventType |-> "view_election"],
     [userId |-> "u1", electionId |-> "e1", eventType |-> ""]}

\* req.body of a batch request: `events` is an array, or is missing
BatchBodies ==
    {[isArray |-> FALSE, events |-> <<>>]}
    \cup {[isArray |-> TRUE, events |-> e] :
            e \in UNION {[1..n -> BatchEventPool] : n \in 0..MaxBodyLen}}

\* a handler that validates nothing
ChecksNothing(body) == FALSE

\* !userId || !electionId || !eventType
MissingEventField(body) ==
    body.userId = "" \/ body.electionId = "" \/ body.eventType = ""

\* !userId || !electionId
MissingVoteField(body) == body.userId = "" \/ body.electionId = ""

\* !events || !Array.isArray(events) || events.length === 0, and the loop
\* over the events
BadBatch(body) ==
    \/ ~body.isArray
    \/ Len(body.events) = 0
    \/ \E k \in 1..Len(body.events) : MissingEventField(body.events[k])

\* Object.values(EVENT_TYPES).includes(eventType)
ValidEventType(eventType) == eventType \in DOMAIN EVENT_LABELS

Forwarded == [status |-> 0, success |-> TRUE, error |-> ""]

HttpInit ==
    /\ hCount = 0
    /\ hReq = [route |-> "none", body |-> <<>>]
    /\ hResponse = Forwarded

MoreInit == ReadInit /\ ClientInit /\ HttpInit /\ JobInit /\ ExitInit

\* res.status(400).json({ success: false, error }): the handler returns
\* without calling the service
Reject(error) ==
    /\ hResponse' = [status |-> 400, success |-> FALSE, error |-> error]
    /\ UNCHANGED <<trackerVars, batchVars, syncVars>>

\* a request reaches a handler
Handle(route, body) ==
    /\ hCount < MaxRequests
    /\ hCount' = hCount + 1
    /\ hReq' = [route |-> route, body |-> body]
    /\ UNCHANGED <<driverVars, singleVars, xformVars, forYouVars, readVars,
                   clientVars, lastVars>>

httpTrackEvent ==
    \E body \in TrackBodies :
        /\ Handle("track", body)
        /\ IF MissingEventField(body)
           THEN Reject("userId, electionId, and eventType are required")
           ELSE IF ~ValidEventType(body.eventType)
           THEN Reject("Invalid eventType")
           ELSE /\ trackEventCall(body.eventType, FALSE)
                /\ hResponse' = Forwarded

httpTrackVote ==
    \E body \in VoteBodies :
        /\ Handle("vote", body)
        /\ IF MissingVoteField(body)
           THEN Reject("userId and electionId are required")
           ELSE /\ trackEventCall("vote_cast", TRUE)
                /\ hResponse' = Forwarded

httpBatchTrackEvents ==
    \E body \in BatchBodies :
        /\ Handle("batch", body)
        /\ IF BadBatch(body)
           THEN Reject("events array is required, each with all fields")
           ELSE /\ batchTrackEventsCall(
                       [k \in 1..Len(body.events) |->
                           body.events[k].eventType])
                /\ hResponse' = Forwarded

\* the empty table, for the specifications that run no sync
NoRows == rows = <<>>

vars == <<trackerVars, batchVars, syncVars, laterVars>>

LaterInit ==
    DriverInit /\ SingleInit /\ XformIdle /\ ForYouInit /\ MoreInit

Init == TrackerInit /\ BatchInit /\ SyncInit /\ NoRows /\ LaterInit

Next ==
    \/ trackVoteCast
    \/ trackLotteryWin
    \/ trackElectionView
    \/ controllerTrackEvent
    \/ TimerFlush
    \/ forceFlush
    \/ FlushUploadSucceeds
    \/ FlushUploadFails
    \/ ImmediateUploadSucceeds
    \/ ImmediateUploadFails

Spec == Init /\ [][Next]_vars

(***************************************************************************)
(* The tracker under the scheduling the runtime provides:                  *)
(* setInterval(flushEventBuffer, 5000) (config/index.js:334) keeps firing  *)
(* for the life of the process, so a flush of a non-empty buffer that      *)
(* stays possible is taken; and the platform is available again and again, *)
(* so of the flush uploads that are attempted again and again one          *)
(* eventually succeeds.  Nothing is assumed about the singleton uploads    *)
(* of the immediate path.  One immediate and one deferred entry point      *)
(* stand for the others: the kind of an event plays no part in buffering.  *)
(***************************************************************************)
LiveNext ==
    \/ trackVoteCast
    \/ trackElectionView
    \/ TimerFlush
    \/ FlushUploadSucceeds
    \/ FlushUploadFails
    \/ ImmediateUploadSucceeds
    \/ ImmediateUploadFails

Fairness ==
    /\ WF_vars(TimerFlush)
    /\ SF_vars(FlushUploadSucceeds)

LiveSpec == Init /\ [][LiveNext]_vars /\ Fairness

(***************************************************************************)
(* batchTrackEvents on its own.                                            *)
(***************************************************************************)
BatchNext ==
    \/ batchTrackEvents
    \/ BatchChunkSucceeds
    \/ BatchChunkFails

BatchSpec == Init /\ [][BatchNext]_vars

(***************************************************************************)
(* One run of one paginated sync function over a table that does not       *)
(* change during the run.                                                  *)
(***************************************************************************)
SyncSpecInit == TrackerInit /\ BatchInit /\ SyncInit /\ LaterInit

SyncNext ==
    \/ syncUsersToShaped
    \/ syncElectionsToShaped
    \/ syncRegularVotesToShaped
    \/ syncAnonymousVotesToShaped
    \/ syncParticipationToShaped
    \/ FetchReturns
    \/ FetchFails
    \/ UploadSucceeds
    \/ UploadFails

SyncSpec == SyncSpecInit /\ [][SyncNext]_vars

(***************************************************************************)
(* The tracker with deferred track calls only, no timer, no forceFlush and *)
(* uploads that succeed: the setting of the buffer-size property.          *)
(***************************************************************************)
QuietNext ==
    \/ trackElectionView
    \/ controllerTrackEvent
    \/ FlushUploadSucceeds

QuietSpec == Init /\ [][QuietNext]_vars

(***************************************************************************)
(* One run of a sync driver: the full sync or the combined votes sync.     *)
(***************************************************************************)
DriverNext ==
    \/ runFullSync
    \/ syncAllVotesToShaped
    \/ FamilyReturns
    \/ FamilyRaises

DriverSpec == Init /\ [][DriverNext]_vars

(***************************************************************************)
(* One call of a single-entity sync against any table.                     *)
(***************************************************************************)
SingleNext ==
    \/ syncSingleUser
    \/ syncSingleElection
    \/ SingleQueryReturns
    \/ SingleQueryFails
    \/ SingleInsertSucceeds
    \/ SingleInsertFails

SingleSpec == SyncSpecInit /\ [][SingleNext]_vars

(***************************************************************************)
(* The transforms as functions: a row of any table, transformed by two     *)
(* sync runs.                                                              *)
(***************************************************************************)
TransformInit ==
    /\ TrackerInit /\ BatchInit /\ SyncInit /\ NoRows
    /\ DriverInit /\ SingleInit /\ XformInputs /\ ForYouInit /\ MoreInit

TransformNext ==
    \/ TransformUser
    \/ TransformElection
    \/ TransformRegularVote
    \/ TransformAnonymousVote
    \/ TransformParticipation
    \/ BuildSingleVoteEvent
    \/ CreateTrackedEvent
    \/ FilterActiveElections
    \/ ClassifyEvent
    \/ ScoreTrending
    \/ ScorePopular

TransformSpec == TransformInit /\ [][TransformNext]_vars

(***************************************************************************)
(* One for-you read, called directly or through its controller.            *)
(***************************************************************************)
ForYouNext ==
    \/ getElectionsForYou
    \/ controllerGetElectionsForYou
    \/ getUserVoteCountReturns
    \/ getUserVoteCountFails
    \/ RankReturns
    \/ RankFails
    \/ GeneralQueryReturns
    \/ GeneralQueryFails
    \/ TrendingReturns
    \/ TrendingFails
    \/ FallbackReturns
    \/ FallbackFails

ForYouSpec == Init /\ [][ForYouNext]_vars

(***************************************************************************)
(* One read of any kind.                                                   *)
(***************************************************************************)
ReadNext ==
    \/ ForYouNext
    \/ getSimilarElections
    \/ getTrendingElections
    \/ getPopularElections
    \/ getLotterizedPicks
    \/ getElectionsByCategory
    \/ getAudienceForElection
    \/ ReadQueryReturns
    \/ ReadQueryFails
    \/ ReadFallbackReturns
    \/ ReadFallbackFails

ReadSpec == Init /\ [][ReadNext]_vars

(***************************************************************************)
(* The create operations of the client, called repeatedly.                 *)
(***************************************************************************)
ClientNext ==
    \/ createTable
    \/ createEngine
    \/ PostResolves
    \/ PostRejects

ClientSpec == Init /\ [][ClientNext]_vars

(***************************************************************************)
(* The event controller in front of the tracker.                           *)
(***************************************************************************)
ControllerNext ==
    \/ httpTrackEvent
    \/ httpTrackVote
    \/ httpBatchTrackEvents
    \/ FlushUploadSucceeds
    \/ FlushUploadFails
    \/ ImmediateUploadSucceeds
    \/ ImmediateUploadFails
    \/ BatchChunkSucceeds
    \/ BatchChunkFails

ControllerSpec == Init /\ [][ControllerNext]_vars

(***************************************************************************)
(* The scheduled job over a table that is updated while it runs.           *)
(***************************************************************************)
ScheduledInit ==
    /\ SyncSpecInit
    /\ Len(rows) <= MaxJobRows
    /\ \A r \in RowIds : rows[r].ok /\ rows[r].ts >= MaxTs - 1

ScheduledNext ==
    \/ Tick
    \/ UpdateRow
    \/ runUserSync
    \/ runElectionSync
    \/ RunFetchReturns
    \/ RunFetchFails
    \/ RunUploadSucceeds
    \/ RunUploadFails

ScheduledSpec == ScheduledInit /\ [][ScheduledNext]_vars

(***************************************************************************)
(* The tracker up to the exit of the process.                              *)
(***************************************************************************)
ShutdownNext ==
    \/ Alive /\ trackVoteCast
    \/ Alive /\ trackElectionView
    \/ Alive /\ TimerFlush
    \/ Alive /\ FlushUploadSucceeds
    \/ Alive /\ FlushUploadFails
    \/ Alive /\ ImmediateUploadSucceeds
    \/ Alive /\ ImmediateUploadFails
    \/ shutdown
    \/ ShutdownFlushSettled
    \/ ProcessExits

ShutdownSpec == Init /\ [][ShutdownNext]_vars

(***************************************************************************)
(* Where an event is.                                                      *)
(***************************************************************************)
InBuffer(id) ==
    Cardinality({i \in 1..Len(eventBuffer) : eventBuffer[i].id = id})

FlightSlots == UNION {{<<f, i>> : i \in 1..Len(f.batch)} : f \in flights}

InFlight(id) ==
    Cardinality({p \in FlightSlots : p[1].batch[p[2]].id = id})

InUploaded(id) == Cardinality({e \in uploaded : e.id = id})

HighValue == {"vote_cast", "lottery_win"}

(***************************************************************************)
(* C1 (stated as claimed): the buffer always holds its events in the order *)
(* they were tracked.  Events that reached the buffer through the          *)
(* immediate path's fallback are left out of the comparison: for the       *)
(* others the order of the track calls, of the pushes and of the event ids *)
(* is the same order.                                                      *)
(***************************************************************************)
C1_BufferInTrackedOrder ==
    \A i, j \in 1..Len(eventBuffer) :
        (/\ i < j
         /\ eventBuffer[i] \notin failedImmediate
         /\ eventBuffer[j] \notin failedImmediate)
        => eventBuffer[i].id < eventBuffer[j].id

(***************************************************************************)
(* C2: no tracked event is lost or duplicated: every event created so far  *)
(* is in exactly one of the buffer, the batch of one awaited upload, the   *)
(* uploaded events; and nothing else is anywhere.                          *)
(***************************************************************************)
C2_NoLossNoDuplication ==
    /\ \A id \in 1..(nextId - 1) :
          InBuffer(id) + InFlight(id) + InUploaded(id) = 1
    /\ \A e \in Elems(eventBuffer) \cup uploaded
                \cup UNION {Elems(f.batch) : f \in flights} :
          e.id \in 1..(nextId - 1)

\* a failed upload has put its events back while another upload is awaited
\* and a third event is already uploaded
C2_Witness ==
    /\ failedImmediate # {}
    /\ Len(eventBuffer) > 0
    /\ flights # {}
    /\ uploaded # {}

(***************************************************************************)
(* C3: with deferred track calls only, no timer and no forceFlush, and     *)
(* uploads that succeed: after N < threshold calls getBufferSize() is N;   *)
(* and whenever no upload is awaited the buffer holds the calls made since *)
(* the last size-triggered flush, so it is empty once the flush of the     *)
(* call that reached the threshold has succeeded.                          *)
(***************************************************************************)
C3_BufferSize ==
    /\ (nextId - 1 < BUFFER_FLUSH_SIZE => getBufferSize = nextId - 1)
    /\ (flights = {} => getBufferSize = (nextId - 1) % BUFFER_FLUSH_SIZE)
    /\ (ret.call = "track" /\ ret.upload = "ok" /\ ret.event.id = nextId - 1
            /\ flights = {}
        => getBufferSize = 0)

\* the call that reached the threshold has returned after its flush
C3_Witness ==
    /\ ret.call = "track"
    /\ ret.upload = "ok"
    /\ nextId - 1 = BUFFER_FLUSH_SIZE
    /\ getBufferSize = 0

(***************************************************************************)
(* C4: trackEvent never raises an upload error: whenever a track call      *)
(* returns after an upload that failed, it returns a result (no throw)     *)
(* and every event of the failed upload is in the buffer.                  *)
(***************************************************************************)
C4_TrackNeverRaises ==
    ret.call = "track" =>
        /\ ~ret.threw
        /\ (ret.upload = "failed" => Elems(ret.batch) \subseteq Elems(eventBuffer))

\* a size-triggered flush has failed and its track call has returned
C4_Witness ==
    /\ ret.call = "track"
    /\ ret.path = "deferred"
    /\ ret.upload = "failed"
    /\ Len(ret.batch) >= BUFFER_FLUSH_SIZE

(***************************************************************************)
(* C5: immediate path: a failed singleton upload appends the event to the  *)
(* buffer (the size grows by exactly one) and returns {success: false,     *)
(* buffered: true}; a successful one leaves the buffer as it is and        *)
(* returns success = true.                                                 *)
(***************************************************************************)
C5_ImmediateFallback ==
    [][ (ret'.call = "track" /\ ret'.path = "immediate") =>
           IF ret'.upload = "failed"
           THEN /\ eventBuffer' = Append(eventBuffer, ret'.event)
                /\ Len(eventBuffer') = Len(eventBuffer) + 1
                /\ ret'.success = FALSE
                /\ ret'.buffered = TRUE
           ELSE /\ eventBuffer' = eventBuffer
                /\ ret'.success = TRUE ]_vars

\* an immediate call has returned after a failed upload into a buffer that
\* already held an event
C5_Witness ==
    /\ ret.call = "track"
    /\ ret.path = "immediate"
    /\ ret.upload = "failed"
    /\ Len(eventBuffer) >= 2

(***************************************************************************)
(* C6 (stated as claimed): an event of a high-value kind enters the buffer *)
(* (or the snapshot of a flush) only if its singleton upload has failed,   *)
(* whichever entry point accepted it.                                      *)
(***************************************************************************)
C6_HighValueBypassesBuffer ==
    \A e \in Elems(eventBuffer)
             \cup UNION {Elems(f.batch) : f \in {g \in flights : g.op = "flush"}} :
        e.event_type \in HighValue => e \in failedImmediate

(***************************************************************************)
(* Helpers of the batch and sync properties.                               *)
(***************************************************************************)
RECURSIVE Flatten(_)
Flatten(ss) == IF ss = <<>> THEN <<>> ELSE Head(ss) \o Flatten(Tail(ss))

\* the rows the running sync's query selects
MatchingRows ==
    CASE family = "users" -> UsersWhere
      [] family = "elections" -> ElectionsWhere(statusFilter, since)
      [] family = "regular_votes" -> RegularVotesWhere(since)
      [] family = "anonymous_votes" -> AnonymousVotesWhere(since)
      [] family = "participation" -> ParticipationWhere(since)

(***************************************************************************)
(* C7: batchTrackEvents uploads its input in input order, in sequential    *)
(* chunks of at most the chunk size; it returns {success: true, totalSent  *)
(* = number of inputs} only when every chunk was uploaded; a failed chunk  *)
(* upload is raised to the caller and no later chunk is uploaded.          *)
(***************************************************************************)
C7_BatchTrack ==
    /\ \A k \in 1..Len(bChunks) :
          Len(bChunks[k]) >= 1 /\ Len(bChunks[k]) <= TrackBatchSize
    /\ Flatten(bChunks) = SubSeq(bEvents, 1, Len(Flatten(bChunks)))
    /\ (bPc = "returned" =>
          /\ bRet.success
          /\ ~bRet.threw
          /\ bRet.totalSent = Len(bEvents)
          /\ Flatten(bChunks) = bEvents)
    /\ (bRet.success => bPc = "returned")
    /\ (bPc = "threw" =>
          /\ bRet.threw
          /\ ~bRet.success
          /\ Flatten(bChunks) = SubSeq(bEvents, 1, bI))

\* a chunk upload failed after an earlier chunk was uploaded and with a
\* later chunk still to send
C7_Witness ==
    /\ bPc = "threw"
    /\ Len(bChunks) >= 1
    /\ bI + TrackBatchSize < Len(bEvents)

(***************************************************************************)
(* C8 (stated as claimed): with unchanged rows and no failure, a sync that *)
(* has returned reports success, has uploaded every row its query selects  *)
(* exactly once, and totalSynced is the number of those rows.              *)
(***************************************************************************)
C8_EveryRowOnce ==
    sPc = "returned" =>
        /\ sRet.success
        /\ sRet.totalSynced = Cardinality(MatchingRows)
        /\ Flatten(sInserted) \in Perms(MatchingRows)

(***************************************************************************)
(* C9: when a page query or a page upload rejects, the sync function       *)
(* raises to its caller and returns no success result, and it has issued   *)
(* no query and no upload beyond the failing page.                         *)
(***************************************************************************)
C9_SyncReraises ==
    sPc = "threw" =>
        /\ sRet.threw
        /\ ~sRet.success
        /\ sFetches = (sOffset \div SyncBatchSize) + 1
        /\ Len(sInserted) = sOffset \div SyncBatchSize

\* a sync has thrown after uploading a page and with rows left to upload
C9_Witness ==
    /\ sPc = "threw"
    /\ Len(sInserted) >= 1
    /\ Cardinality(MatchingRows) > sOffset

(***************************************************************************)
(* C10 (stated as claimed): a sync called with a since timestamp fetches   *)
(* and uploads only rows whose timestamp is at or after since, for every   *)
(* entity family.                                                          *)
(***************************************************************************)
C10_OnlyRowsSinceCursor ==
    since # NoSince =>
        \A r \in Elems(Flatten(sInserted)) \cup Elems(sPage) :
            rows[r].ts >= since

(***************************************************************************)
(* C11.  Failure isolation of the sync drivers.  When a driver has         *)
(* answered: every family it was asked to run was attempted (users and     *)
(* elections, and the regular and anonymous vote streams unless votes were *)
(* switched off, in runFullSync; regular and anonymous, and participation  *)
(* when requested, in syncAllVotesToShaped), whichever of them threw; the  *)
(* driver itself did not fail; and each family that threw is reported in   *)
(* its results slot as { success: false, error: <its message> }.           *)
(***************************************************************************)
ReportedResult(f) ==
    IF f \in VoteStreams THEN dDetails[f] ELSE dResults[f]

RequestedFamilies ==
    IF dEntry = "runFullSync"
    THEN {"users", "elections"}
         \cup (IF dSyncVotes THEN {"regularVotes", "anonymousVotes"} ELSE {})
    ELSE {"regularVotes", "anonymousVotes"}
         \cup (IF dIncludeParticipation THEN {"participation"} ELSE {})

C11_FailureIsolation ==
    /\ dPc # "aborted"
    /\ dPc = "done" =>
          /\ RequestedFamilies \subseteq dAttempted
          /\ dRet.status = 200
          /\ \A f \in dRaised : ReportedResult(f) = FamilyFailed(f)
          /\ dEntry = "runFullSync" =>
                /\ dRet.results = dResults
                /\ dSyncVotes => dResults.votes.details = dDetails
          /\ dEntry = "syncAllVotesToShaped" => dRet.body.details = dDetails

\* the full sync has answered after the user sync and the regular vote
\* stream threw
C11_Witness ==
    /\ dPc = "done"
    /\ dEntry = "runFullSync"
    /\ dRaised = {"users", "regularVotes"}
    /\ dResults.elections.success

(***************************************************************************)
(* C12.  A single-entity sync called with an id that has no row: once the  *)
(* lookup has answered, the call has returned (it did not throw) a result  *)
(* with success = false and a reason, and at no point of the call was a    *)
(* batch handed to insertDataset.                                          *)
(***************************************************************************)
C12_NotFoundResult ==
    gId \notin RowIds =>
        /\ gInserts = <<>>
        /\ (gPc \in {"returned", "threw"} /\ gRet # [threw |-> "query"]) =>
              /\ gPc = "returned"
              /\ DOMAIN gRet = {"success", "reason"}
              /\ gRet.success = FALSE
              /\ gRet.reason \in {"User not found", "Election not found"}

\* syncSingleElection has answered for an id that no row of a non-empty
\* table has
C12_Witness ==
    /\ gPc = "returned"
    /\ gKind = "election"
    /\ gId \notin RowIds
    /\ rows # <<>>

(***************************************************************************)
(* C13.  As stated: syncSingleUser with an id that has no row returns      *)
(* exactly { success: false, reason: 'User not found for sync' }.          *)
(***************************************************************************)
C13_ReasonAsStated ==
    (gKind = "user" /\ gPc = "returned" /\ gId \notin RowIds) =>
        gRet = [success |-> FALSE, reason |-> "User not found for sync"]

(***************************************************************************)
(* C13, amended.  syncSingleUser with an id that has no row returns        *)
(* exactly { success: false, reason: 'User not found' }; 'User not found   *)
(* for sync' is the text of the warning it logs.                           *)
(***************************************************************************)
C13_UserNotFound ==
    (gKind = "user" /\ gPc = "returned" /\ gId \notin RowIds) =>
        gRet = [success |-> FALSE, reason |-> "User not found"]

C13_Witness ==
    /\ gKind = "user"
    /\ gPc = "returned"
    /\ gId \notin RowIds
    /\ gRet.success = FALSE

(***************************************************************************)
(* C14.  Transform determinism: a row of the users, elections or votes     *)
(* tables that did not change, transformed by two sync runs at two         *)
(* different times, gives two records that are equal field for field.      *)
(***************************************************************************)
SyncTransforms ==
    {"user", "election", "regularVote", "anonymousVote", "participation"}

ClockOrGeneratedFields ==
    CASE xKind = "election" ->
            {"is_active", "days_remaining"}
            \cup (IF xRow.created_at = Null THEN {"created_at"} ELSE {})
      [] xKind = "user" ->
            (IF xRow.age = Null /\ xRow.user_birthdate # Null
             THEN {"age"} ELSE {})
            \cup (IF xRow.user_registered = Null THEN {"created_at"} ELSE {})
      [] xKind = "regularVote" ->
            (IF xRow.voting_id = Null THEN {"event_id"} ELSE {})
            \cup (IF xRow.created_at = Null THEN {"created_at"} ELSE {})
      [] xKind = "anonymousVote" ->
            (IF xRow.voting_id = Null THEN {"event_id"} ELSE {})
            \cup (IF xRow.created_at = Null THEN {"created_at"} ELSE {})
            \cup (IF xRow.voting_session_id = Null /\ xRow.vote_token = Null
                  THEN {"user_id"} ELSE {})
      [] xKind = "participation" ->
            IF xRow.voting_session_id = Null THEN {"event_id"} ELSE {}
      [] OTHER -> {}

EventProducers ==
    {"track", "regularVote", "anonymousVote", "participation", "singleVote"}

C15_LabelIsLabelOfKind ==
    xKind \in EventProducers =>
        \A i \in 1..Len(xOut) :
            xOut[i].label = getEventLabel(xOut[i].event_type)

(***************************************************************************)
(* C16.  The user_id of an anonymous-vote event starts with 'anon_' and    *)
(* does not contain the complete vote_token of the ballot, whatever the    *)
(* token's length.                                                         *)
(***************************************************************************)
\* t occurs in s as a run of consecutive characters
Contains(s, t) ==
    \E k \in 0..(Len(s) - Len(t)) : SubSeq(s, k + 1, k + Len(t)) = t

C16_NeverTheRawToken ==
    xKind = "anonymousVote" =>
        \A i \in 1..Len(xOut) :
            /\ SubSeq(xOut[i].user_id, 1, Len(AnonPrefix)) = AnonPrefix
            /\ xRow.vote_token # Null =>
                  ~Contains(xOut[i].user_id, xRow.vote_token)

(***************************************************************************)
(* C17.  The engagement_score of a transformed election row lies in        *)
(* [0, 1], whatever its status, lottery flag, prize pool, view_count and   *)
(* vote_count.                                                             *)
(***************************************************************************)
C17_ScoreInUnitInterval ==
    xKind = "election" =>
        \A i \in 1..Len(xOut) :
            /\ xOut[i].engagement_score >= 0
            /\ xOut[i].engagement_score <= ScoreOne

(***************************************************************************)
(* The calls of a for-you read and their outcomes.                         *)
(***************************************************************************)
Called(call) == \E k \in 1..Len(fCalls) : fCalls[k].call = call

\* the position of the ranking call among the calls (0 when there was none)
RankCallAt ==
    IF Called("rank")
    THEN (CHOOSE k \in 1..Len(fCalls) : fCalls[k].call = "rank")
    ELSE 0

OutcomeAt(k) == IF k \in 1..Len(fCalls) THEN fCalls[k].result ELSE "none"

(***************************************************************************)
(* C18.  A read for a user who has no row in the votes table returns       *)
(* is_new_user = true and recommendation_type = 'trending', and none of    *)
(* the returned items is tagged personalized, whether the vote-count query *)
(* and the platform's query answer or fail and whatever items the platform *)
(* answers with.                                                           *)
(***************************************************************************)
C18_NewUserGetsTrending ==
    (fPc = "returned" /\ UsableIdentity(fUserId) /\ fDbCount = 0) =>
        /\ "is_new_user" \in DOMAIN fRet
        /\ fRet.is_new_user = TRUE
        /\ fRet.recommendation_type = "trending"
        /\ \A k \in 1..Len(fRet.data) :
              /\ fRet.data[k].recommendation_type = "trending"
              /\ fRet.data[k].personalized_for_user = FALSE

\* a user without votes was answered with at least one item
C18_Witness ==
    /\ fPc = "returned"
    /\ fUserId = "u1"
    /\ fDbCount = 0
    /\ OutcomeAt(1) = "ok"
    /\ fRet.data # <<>>

(***************************************************************************)
(* C19.  A read without a usable identity (no user id, 'undefined' or      *)
(* 'null', and no authenticated user; directly or over HTTP) returns the   *)
(* trending branch and issues no vote-count query.                         *)
(***************************************************************************)
NoIdentitySupplied ==
    /\ fReqUserId \in {"", "undefined", "null"}
    /\ fAuthUserId = ""

C19_NoVoteCountLookup ==
    (fPc # "idle" /\ NoIdentitySupplied) =>
        /\ ~Called("voteCount")
        /\ fPc = "returned" =>
              /\ fRet.is_new_user = TRUE
              /\ fRet.recommendation_type = "trending"

(***************************************************************************)
(* C20.  A read for a user with a non-zero vote count: when the ranking    *)
(* call succeeded, the result has recommendation_type = 'personalized',    *)
(* is_personalized = true and a message that carries the count; when the   *)
(* ranking call failed and the generic query succeeded, the result has     *)
(* recommendation_type = 'general' and is_personalized = false and is not  *)
(* the database fallback.                                                  *)
(***************************************************************************)
C20_ReturningUser ==
    (fPc = "returned" /\ fVoteCount # 0 /\ RankCallAt # 0) =>
        /\ OutcomeAt(RankCallAt) = "ok" =>
              /\ fRet.recommendation_type = "personalized"
              /\ fRet.is_personalized = TRUE
              /\ fRet.message.count = fVoteCount
              /\ fVoteCount = fDbCount
        /\ (OutcomeAt(RankCallAt) = "failed"
            /\ OutcomeAt(RankCallAt + 1) = "ok"
            /\ fCalls[RankCallAt + 1].call = "query") =>
              /\ fRet.recommendation_type = "general"
              /\ fRet.is_personalized = FALSE
              /\ "source" \notin DOMAIN fRet
              /\ fRet.message.count = fVoteCount

\* the ranking call failed and the generic query answered with items that
\* survive the filter
C20_Witness ==
    /\ fPc = "returned"
    /\ fVoteCount = MaxVotes
    /\ RankCallAt # 0
    /\ OutcomeAt(RankCallAt) = "failed"
    /\ OutcomeAt(RankCallAt + 1) = "ok"
    /\ fRet.data # <<>>

(***************************************************************************)
(* C21.  A personalized result (the ranking call answered) holds no item   *)
(* whose end timestamp is before the evaluation time and no item in draft  *)
(* or cancelled status, has at most `limit` items, and lists its items in  *)
(* the order the ranking endpoint returned them: the ids of the result are *)
(* the ids of the active items of the answer after `offset`, cut at limit. *)
(***************************************************************************)
Ids(items) == [k \in 1..Len(items) |-> items[k].id]

Ended(item, now) == item.end_date.kind = "ts" /\ item.end_date.t < now

DraftOrCancelled(item) ==
    item.status \in {"draft", "Draft", "DRAFT", "cancelled", "Cancelled",
                     "CANCELLED"}

Servable(item) == ~Ended(item, fNow) /\ ~DraftOrCancelled(item)

\* the servable members of `items`, in the order of `items`
RECURSIVE ServableOf(_)
ServableOf(items) ==
    IF items = <<>> THEN <<>>
    ELSE (IF Servable(Head(items)) THEN <<Head(items)>> ELSE <<>>)
         \o ServableOf(Tail(items))

PersonalizedReturned ==
    /\ fPc = "returned"
    /\ "recommendation_type" \in DOMAIN fRet
    /\ fRet.recommendation_type = "personalized"

C21_PersonalizedIsActiveAndOrdered ==
    PersonalizedReturned =>
        /\ \A k \in 1..Len(fRet.data) : Servable(fRet.data[k])
        /\ Len(fRet.data) <= fLimit
        /\ Ids(fRet.data) =
              slice(Ids(ServableOf(SliceFrom(fResponse, fOffset))),
                    0, fLimit)

\* the ranking answered with an item in draft between two active ones, one
\* of which ends at the evaluation time, and both active ones were returned
C21_Witness ==
    /\ PersonalizedReturned
    /\ fOffset = 0
    /\ Len(fResponse) = 3
    /\ DraftOrCancelled(fResponse[2])
    /\ fResponse[3].end_date = Ts(fNow)
    /\ Len(fRet.data) = 2

(***************************************************************************)
(* C22.  Whatever branch a for-you read with limit L takes (personalized,  *)
(* general, trending, database fallback), the result has at most L items   *)
(* and carries pagination.limit = L.                                       *)
(***************************************************************************)
C22_PaginationInvariant ==
    fPc = "returned" =>
        /\ Len(fRet.data) <= fLimit
        /\ "pagination" \in DOMAIN fRet
        /\ fRet.pagination.limit = fLimit

(***************************************************************************)
(* C24.  When every call to the platform fails and the database answers,   *)
(* a for-you read returns the database fallback: success = true, source =  *)
(* 'database_fallback', at most `limit` of the rows the fallback query     *)
(* finds; for a caller without identity, a new user and a returning user.  *)
(***************************************************************************)
PlatformCalls == {k \in 1..Len(fCalls) : fCalls[k].call \in {"query", "rank"}}

DatabaseCalls ==
    {k \in 1..Len(fCalls) : fCalls[k].call \in {"voteCount", "dbFallback"}}

PlatformUnavailable ==
    /\ PlatformCalls # {}
    /\ \A k \in PlatformCalls : fCalls[k].result = "failed"

DatabaseReachable == \A k \in DatabaseCalls : fCalls[k].result = "ok"

C24_UnavailablePlatformFallsBack ==
    (fPc = "returned" /\ PlatformUnavailable /\ DatabaseReachable) =>
        /\ fRet.success = TRUE
        /\ "source" \in DOMAIN fRet
        /\ fRet.source = "database_fallback"
        /\ Len(fRet.data) <= fLimit
        /\ \A k \in 1..Len(fRet.data) : fRet.data[k] \in Elems(DbElections)

(***************************************************************************)
(* C23.  No read (for-you, similar, trending, popular, lotterized,         *)
(* by-category, audience) raises to its caller, whichever of its calls to  *)
(* the platform and to the database fail: what it returns is a result      *)
(* with a success flag and a data list.                                    *)
(***************************************************************************)
IsResult(r) ==
    /\ "threw" \notin DOMAIN r
    /\ {"success", "data"} \subseteq DOMAIN r
    /\ r.success \in BOOLEAN
    /\ DOMAIN r.data = 1..Len(r.data)

C23_ReadsNeverRaise ==
    /\ rPc = "returned" => IsResult(rRet)
    /\ fPc = "returned" => IsResult(fRet)

\* a read whose query of the platform and whose SELECT both failed
C23_Witness ==
    /\ rPc = "returned"
    /\ Len(rCalls) = 2
    /\ \A k \in 1..2 : rCalls[k].result = "failed"

(***************************************************************************)
(* C25.  A read during which every call to the platform and every query    *)
(* of the database failed returns an explicit failure: success = false     *)
(* and data = [].                                                          *)
(***************************************************************************)
AllFailed(calls) ==
    /\ \E k \in 1..Len(calls) : calls[k].call \in {"voteCount", "dbFallback"}
    /\ \A k \in 1..Len(calls) : calls[k].result = "failed"

ExplicitFailure(r) == r.success = FALSE /\ r.data = <<>>

C25_BothFailIsExplicitFailure ==
    /\ (rPc = "returned" /\ AllFailed(rCalls)) => ExplicitFailure(rRet)
    /\ (fPc = "returned" /\ AllFailed(fCalls)) => ExplicitFailure(fRet)

(***************************************************************************)
(* C27.  A list that a read serves from the platform's answer (for-you,    *)
(* trending, popular, similar, by-category, lotterized) holds no item in   *)
(* draft or cancelled status and no item whose end timestamp is before the *)
(* time at which the answer was processed.                                 *)
(***************************************************************************)
ServedFromPlatform(pc, r) == pc = "returned" /\ "source" \notin DOMAIN r

AllActiveAt(items, now) ==
    \A k \in 1..Len(items) :
        ~DraftOrCancelled(items[k]) /\ ~Ended(items[k], now)

C27_PlatformListsAreFiltered ==
    /\ ServedFromPlatform(rPc, rRet) => AllActiveAt(rRet.data, rNow)
    /\ ServedFromPlatform(fPc, fRet) => AllActiveAt(fRet.data, fNow)

(***************************************************************************)
(* C26.  filterActiveElections keeps an item iff its status is neither     *)
(* draft nor cancelled and its end_date is absent, does not parse, or is   *)
(* not before the evaluation time (an end one second before it is dropped, *)
(* one second after it kept, a draft dropped whatever its date); the kept  *)
(* items stay in the order of the input.                                   *)
(***************************************************************************)
\* the instant an end_date denotes
Denotes(d) == IF d.kind = "offset" THEN d.t - d.off ELSE d.t

KeptByRule(item, now) ==
    /\ item.status \notin {"draft", "Draft", "cancelled", "CANCELLED"}
    /\ \/ item.end_date.kind = "none"
       \/ item.end_date.kind = "invalid"
       \/ ~(Denotes(item.end_date) < now)

C26_ActiveFilterRule ==
    xKind = "electionList" =>
        \A i \in 1..Len(xOut) :
            LET keep(item) == KeptByRule(item, xNow[i])
            IN  xOut[i] = SelectSeq(xRow, keep)

\* a list of three whose middle item, a draft, is dropped, and whose first
\* item has ended by the second evaluation
C26_Witness ==
    /\ xKind = "electionList"
    /\ Len(xRow) = 3
    /\ Len(xOut) = 2
    /\ xOut[1] = <<xRow[1], xRow[3]>>
    /\ xOut[2] = <<xRow[3]>>

(***************************************************************************)
(* C30.  getEventLabel is total and deterministic: for every input it      *)
(* returns a number, the weight of the table for a kind of the table and   *)
(* exactly 0.0 for any other input; isPositiveEvent holds iff that number  *)
(* is > 0 and isNegativeEvent iff it is < 0, so no kind is both and a kind *)
(* of label 0.0 is neither.                                                *)
(***************************************************************************)
C30_LabelTotalAndSigned ==
    xKind = "label" =>
        /\ \A i \in 1..Len(xOut) :
              /\ xOut[i].label.type = "number"
              /\ xOut[i].label.v =
                    (IF xRow.eventType \in DOMAIN EVENT_LABELS
                     THEN EVENT_LABELS[xRow.eventType] ELSE 0)
              /\ xOut[i].positive <=> (xOut[i].label.v > 0)
              /\ xOut[i].negative <=> (xOut[i].label.v < 0)
              /\ ~(xOut[i].positive /\ xOut[i].negative)
        /\ Len(xOut) = 2 => xOut[1] = xOut[2]

MissesRequiredField(req) ==
    CASE req.route = "track" ->
            "" \in {req.body.userId, req.body.electionId, req.body.eventType}
      [] req.route = "vote" ->
            "" \in {req.body.userId, req.body.electionId}
      [] req.route = "batch" ->
            \E k \in 1..Len(req.body.events) :
                "" \in {req.body.events[k].userId,
                        req.body.events[k].electionId,
                        req.body.events[k].eventType}
      [] OTHER -> FALSE

C29_RejectedBeforeIO ==
    [][(hCount' # hCount /\ MissesRequiredField(hReq')) =>
          /\ hResponse'.status = 400
          /\ hResponse'.success = FALSE
          /\ UNCHANGED <<eventBuffer, nextId, flights, uploaded,
                         failedImmediate, batchVars>>]_vars

\* a batch of a valid event and one without userId was rejected, and
\* nothing has been buffered or sent
C29_Witness ==
    /\ hReq.route = "batch"
    /\ Len(hReq.body.events) = 2
    /\ ~MissingEventField(hReq.body.events[1])
    /\ hReq.body.events[2].userId = ""
    /\ hResponse.status = 400
    /\ eventBuffer = <<>> /\ flights = {} /\ bPc = "idle"

(***************************************************************************)
(* C31.  The size trigger is checked after every enqueue: no step appends  *)
(* an event to the buffer and leaves it holding BUFFER_FLUSH_SIZE events   *)
(* or more (a step that starts the flush leaves the buffer empty), the     *)
(* enqueue after a failed immediate upload included.                       *)
(***************************************************************************)
Enqueued ==
    /\ Len(eventBuffer') = Len(eventBuffer) + 1
    /\ SubSeq(eventBuffer', 1, Len(eventBuffer)) = eventBuffer

C31_SizeTriggerAfterEveryEnqueue ==
    [][Enqueued => Len(eventBuffer') < BUFFER_FLUSH_SIZE]_vars

(***************************************************************************)
(* C32.  While the flush timer keeps firing and flush uploads eventually   *)
(* succeed, every event that is in the buffer is eventually uploaded, and  *)
(* once no new events arrive the buffer becomes empty and stays empty.     *)
(***************************************************************************)
BufferedIds == {eventBuffer[k].id : k \in 1..Len(eventBuffer)}

UploadedIds == {e.id : e \in uploaded}

C32_BufferedEventuallyUploaded ==
    /\ \A id \in 1..MaxEvents : (id \in BufferedIds) ~> (id \in UploadedIds)
    /\ <>[](eventBuffer = <<>>)

\* an event whose singleton upload failed entered the buffer, a flush of it
\* failed and requeued it, and a later flush uploaded it
C32_Witness ==
    /\ \E e \in failedImmediate : e \in uploaded
    /\ eventBuffer = <<>>
    /\ nextId > MaxEvents
    /\ Cardinality(uploaded) = MaxEvents

(***************************************************************************)
(* C35.  Within one paginated sync run the pages go strictly in order:     *)
(* while the query of page N+1 is awaited exactly N uploads have           *)
(* completed, while an upload is awaited it is the only one the run has    *)
(* not seen completed, and the pages are taken at offsets 0, batchSize,    *)
(* 2 * batchSize, ...                                                      *)
(***************************************************************************)
C35_PagesStrictlyInOrder ==
    /\ sPc \in {"fetching", "uploading"} => sFetches = Len(sInserted) + 1
    /\ sPc # "idle" => sFetches <= Len(sInserted) + 1
    /\ sPc \in {"fetching", "uploading"} =>
          sOffset = SyncBatchSize * Len(sInserted)

\* the second page is being uploaded after the first was accepted
C35_Witness ==
    /\ sPc = "uploading"
    /\ sFetches = 2
    /\ Len(sInserted) = 1
    /\ Len(sInserted[1]) = SyncBatchSize
    /\ family \in {"elections", "regular_votes"}

(***************************************************************************)
(* C38.  For a fixed ranking of the platform, the for-you page served at   *)
(* offset o with limit L and the page at offset o + L with the same limit  *)
(* share no item.                                                          *)
(***************************************************************************)
NextPage ==
    PageData(fResponse, fNow, "personalized", fOffset + fLimit, fLimit)

IdSet(items) == {items[k].id : k \in 1..Len(items)}

C38_ConsecutivePagesDisjoint ==
    PersonalizedReturned => IdSet(fRet.data) \cap IdSet(NextPage) = {}

(***************************************************************************)
(* C37.  Every component of the trending score lies between 0 and its      *)
(* maximum (recency 40, engagement 30, votes 20, views 10) and the score   *)
(* lies in [0, 100]; every component of the popularity score lies between  *)
(* 0 and its maximum (votes 50, views 25, engagement 15, prize 10).        *)
(* Scores are in half points.                                              *)
(***************************************************************************)
Capped(score, caps) ==
    /\ \A c \in DOMAIN caps : 0 <= score[c] /\ score[c] <= caps[c]
    /\ 0 <= Total(score)

TrendingCaps == [recency |-> 80, engagement |-> 60, votes |-> 40, views |-> 20]

PopularCaps == [votes |-> 100, views |-> 50, engagement |-> 30, prize |-> 20]

C37_ScoreComponentsCapped ==
    \A k \in 1..Len(xOut) :
        /\ xKind = "trending" =>
              Capped(xOut[k], TrendingCaps) /\ Total(xOut[k]) <= 200
        /\ xKind = "popular" => Capped(xOut[k], PopularCaps)

(***************************************************************************)
(* C36.  getTrendingElections and getPopularElections never return an      *)
(* empty list of the platform: when the platform's query answers with no   *)
(* item, or with items of which none is active, the relational fallback is *)
(* queried, and when that query succeeds its result is the result.         *)
(***************************************************************************)
NoneActive(items, now) ==
    \A k \in 1..Len(items) :
        DraftOrCancelled(items[k]) \/ Ended(items[k], now)

C33_CursorMovesOnlyOnSuccess ==
    [][/\ lastUserSync' # lastUserSync =>
            jPc = "users" /\ sPc' = "returned" /\ sRet'.success
       /\ lastElectionSync' # lastElectionSync =>
            jPc = "elections" /\ sPc' = "returned" /\ sRet'.success
       /\ (jPc # "idle" /\ sPc' = "threw") =>
            UNCHANGED <<lastUserSync, lastElectionSync>>]_vars

\* a user run returned after the clock had moved on, then an election run
\* threw: the user cursor moved, the election cursor is where it was
C33_Witness ==
    /\ jRuns = 2
    /\ jPc = "idle"
    /\ family = "elections" /\ sPc = "threw"
    /\ jSinces = {MaxTs}
    /\ lastElectionSync = MaxTs
    /\ lastUserSync > MaxTs

(***************************************************************************)
(* C34.  The cursor advance is safe: no election row whose updated_at is   *)
(* at or after the cursor of a run that has ended is left with its current *)
(* version neither uploaded nor selectable by a later run (later runs      *)
(* select updated_at >= lastElectionSync).                                 *)
(***************************************************************************)
MissedForGood(r) ==
    /\ \E cursor \in jSinces : rows[r].ts >= cursor
    /\ <<r, rows[r].ts>> \notin jUploaded
    /\ rows[r].ts < lastElectionSync

C34_CursorAdvanceSafe ==
    jPc = "idle" => \A r \in RowIds : ~MissedForGood(r)

(***************************************************************************)
(* C39.  When the process has exited after SIGTERM or SIGINT, every event  *)
(* that was in the buffer or in a flush upload when the signal came has    *)
(* been uploaded.                                                          *)
(***************************************************************************)
C39_ExitLosesNoEvent ==
    ePc = "exited" => eAtSignal \subseteq uploaded

====
